---------------------------- MODULE Spec2Model ----------------------------
(***************************************************************************)
(* A model of ktechlab's ItemDocumentData (the document snapshot), its XML *)
(* reader and writer, the identifier remapper, the geometry translation,   *)
(* the merge / restore of a snapshot into a live document and the          *)
(* sub-circuit extractor (SubcircuitData::initECSubcircuit).               *)
(*                                                                         *)
(* QString values are TLA+ strings; a QMap is a function whose DOMAIN is   *)
(* the key set; a QBitArray is a sequence of BOOLEAN.                      *)
(***************************************************************************)
EXTENDS Integers, Sequences, FiniteSets, TLC

\* ------------------------------------------------------------------ bounds
\* Longest bit vector given to the codec.
MaxBits == 6
\* Largest absolute coordinate of a record in the serialisation runs.
MaxCoord == 2
\* Largest number generateUID appends to a seed.
MaxUid == 2

VARIABLES
    bits,   \* codec: the QBitArray handed to toAsciiHex
    text,   \* codec: the hex text in flight
    data,   \* codec: the QBitArray returned by toQBitArray
    snap,   \* the ItemDocumentData object the operations act on
    snap0,  \* that object as it was before the first operation on it
    xml,    \* the document written by toXML, to be read by fromXML
    ret,    \* the value the last operation returned
    doc,    \* the live document (ItemDocument) the operations are given
    doc0,   \* that document as it was before the first operation on it
    arg,    \* the arguments and the locals of the operation that acted last
    pc      \* the operation that acted last

codecVars == <<bits, text, data>>
snapVars == <<snap, snap0, xml, ret>>
docVars == <<doc, doc0, arg>>
vars == <<bits, text, data, snap, snap0, xml, ret, doc, doc0, arg, pc>>

\* ----------------------------------------------------------------- helpers
Abs(n) == IF n < 0 THEN -n ELSE n

Pow2(j) == IF j = 0 THEN 1 ELSE IF j = 1 THEN 2 ELSE IF j = 2 THEN 4 ELSE 8

\* The character of s at 0-based index i (QString::operator[]).
CharAt(s, i) == SubSeq(s, i + 1, i + 1)

RECURSIVE SumTo(_, _)
\* f[0] + ... + f[n-1]
SumTo(f, n) == IF n = 0 THEN 0 ELSE f[n - 1] + SumTo(f, n - 1)

\* ------------------------------------------------------------------- codec
\* QString::number(val, 16) for val in 0..15: one lowercase digit.
NumberBase16(val) == CharAt("0123456789abcdef", val)

\* QString(c).toInt(nullptr, 16): either case is accepted, anything else gives 0.
ToIntBase16(c) ==
    LET lower == "0123456789abcdef"
        upper == "0123456789ABCDEF"
    IN  IF \E v \in 0..15 : CharAt(lower, v) = c
        THEN CHOOSE v \in 0..15 : CharAt(lower, v) = c
        ELSE IF \E v \in 0..15 : CharAt(upper, v) = c
        THEN CHOOSE v \in 0..15 : CharAt(upper, v) = c
        ELSE 0

\* data.resize(data.size() + 4 - data.size() % 4): new bits are false.
PadToNibble(d) ==
    IF Len(d) % 4 # 0
    THEN d \o [k \in 1..(4 - (Len(d) % 4)) |-> FALSE]
    ELSE d

\* val += (data[4*i + j] ? 1 : 0) << j, for j = 0..3
NibbleValue(d, i) ==
    SumTo([j \in 0..3 |-> IF d[4 * i + j + 1] THEN Pow2(j) ELSE 0], 4)

RECURSIVE HexText(_, _)
\* text += QString::number(val, 16), for i = 0 .. n-1
HexText(d, n) ==
    IF n = 0 THEN "" ELSE HexText(d, n - 1) \o NumberBase16(NibbleValue(d, n - 1))

\* A plausible slip: the bits of a nibble taken most significant first.
toAsciiHexMsbFirst(d) ==
    LET p == PadToNibble(d)
        rev == [k \in 1..Len(p) |-> p[4 * ((k - 1) \div 4) + (4 - ((k - 1) % 4))]]
    IN  HexText(rev, Len(p) \div 4)

toAsciiHex(d) ==
    LET p == PadToNibble(d) IN HexText(p, Len(p) \div 4)

\* data[4*i + j] = val & (1 << j)
toQBitArray(t) ==
    [k \in 1..(4 * Len(t)) |->
        ((ToIntBase16(CharAt(t, (k - 1) \div 4)) \div Pow2((k - 1) % 4)) % 2) = 1]

BitVectors == UNION {[1..n -> BOOLEAN] : n \in 0..MaxBits}

\* ----------------------------------------------------------------- strings
\* A QString that isNull(): what QDomElement::attribute returns for an absent
\* attribute when the default given is QString().
NullQString == "<null>"

isNull(s) == s = NullQString

\* QString::isEmpty(): a null string is empty too.
isEmpty(s) == s = "" \/ s = NullQString

\* A null and an empty QString compare equal (operator==, and as QMap keys);
\* a stored string is kept in its empty form.
Str(s) == IF s = NullQString THEN "" ELSE s

\* The code units the identifiers and values of the model are written with,
\* in ascending order (QString::operator< compares code units).
Alphabet == " #+,-./0123456789<>_abcdefghijklmnopqrstuvwxyz"

CharRank(c) ==
    IF \E k \in 1..Len(Alphabet) : SubSeq(Alphabet, k, k) = c
    THEN CHOOSE k \in 1..Len(Alphabet) : SubSeq(Alphabet, k, k) = c
    ELSE 0

RECURSIVE StrLessFrom(_, _, _)
StrLessFrom(a, b, i) ==
    IF i >= Len(b) THEN FALSE
    ELSE IF i >= Len(a) THEN TRUE
    ELSE IF CharRank(CharAt(a, i)) # CharRank(CharAt(b, i))
         THEN CharRank(CharAt(a, i)) < CharRank(CharAt(b, i))
         ELSE StrLessFrom(a, b, i + 1)

\* a < b for QStrings: the order a QMap<QString, T> iterates its keys in.
StrLess(a, b) == StrLessFrom(a, b, 0)

RECURSIVE SortKeys(_)
\* The keys of a QMap in iteration order.
SortKeys(S) ==
    IF S = {} THEN <<>>
    ELSE LET m == CHOOSE k \in S : \A o \in S : o = k \/ StrLess(k, o)
         IN  <<m>> \o SortKeys(S \ {m})

RECURSIVE SplitFrom(_, _, _, _)
\* The parts of s from 0-based index i on; cur is the part being read.
SplitFrom(s, sep, i, cur) ==
    IF i >= Len(s) THEN (IF cur = "" THEN <<>> ELSE <<cur>>)
    ELSE IF CharAt(s, i) = sep
         THEN (IF cur = "" THEN <<>> ELSE <<cur>>) \o SplitFrom(s, sep, i + 1, "")
         ELSE SplitFrom(s, sep, i + 1, cur \o CharAt(s, i))

\* QString::split(sep, Qt::SkipEmptyParts)
SplitSkipEmpty(s, sep) == SplitFrom(s, sep, 0, "")

RECURSIVE JoinFrom(_, _, _)
JoinFrom(list, sep, i) ==
    IF i > Len(list) THEN ""
    ELSE IF i = Len(list) THEN list[i]
    ELSE list[i] \o sep \o JoinFrom(list, sep, i + 1)

\* QStringList::join(sep)
Join(list, sep) == JoinFrom(list, sep, 1)

\* ------------------------------------------------------- number <-> text
\* The integers whose decimal text the reader is given in the model.
ParseInts == ((-MaxCoord - 1)..(MaxCoord + 1)) \cup {90, 120}

\* QString::number(int), QDomElement::setAttribute(name, int): decimal text.
\* A bool is promoted to int, an integral double prints without a fraction.
IntText(n) == ToString(n)

BoolText(b) == IF b THEN "1" ELSE "0"

\* QString::toInt(): the value of decimal text, 0 when it is none.
toInt(s) ==
    IF \E n \in ParseInts : ToString(n) = s
    THEN CHOOSE n \in ParseInts : ToString(n) = s
    ELSE 0

RECURSIVE Pow10(_)
Pow10(k) == IF k = 0 THEN 1 ELSE 10 * Pow10(k - 1)

\* The number of decimal digits of n, for 1 <= n < 10^12.
Digits(n) == CHOOSE k \in 1..12 : Pow10(k - 1) <= n /\ n < Pow10(k)

\* v kept to 6 significant digits, the precision of QString::number(double)
\* (format 'g', precision 6), rounding the 7th digit half up.
Round6(v) ==
    IF Abs(v) < 1000000 THEN v
    ELSE LET scale == Pow10(Digits(Abs(v)) - 6)
             r == ((Abs(v) + scale \div 2) \div scale) * scale
         IN  IF v < 0 THEN -r ELSE r

RECURSIVE StripZeros(_)
StripZeros(s) ==
    IF Len(s) > 0 /\ SubSeq(s, Len(s), Len(s)) = "0"
    THEN StripZeros(SubSeq(s, 1, Len(s) - 1))
    ELSE s

\* QString::number(double): 'g' with 6 significant digits; from 10^6 on the
\* text is a mantissa and an exponent, e.g. 1234567 gives "1.23457e+06".
DoubleText(v) ==
    IF Abs(v) < 1000000 THEN ToString(v)
    ELSE LET k == Digits(Abs(v))
             m == ToString(Round6(Abs(v)) \div Pow10(k - 6))
             frac == StripZeros(SubSeq(m, 2, 6))
         IN  (IF v < 0 THEN "-" ELSE "") \o SubSeq(m, 1, 1)
               \o (IF frac = "" THEN "" ELSE "." \o frac)
               \o "e+" \o (IF k - 1 < 10 THEN "0" ELSE "") \o ToString(k - 1)

\* The doubles a number property holds in the model (all integral).
NumberValues == {0, 47, 1200000, 1234567}

\* QString::toDouble(): the value the text denotes, 0 when it is no number.
toDouble(s) ==
    LET denoted == {Round6(v) : v \in NumberValues} \cup ParseInts
    IN  IF \E v \in denoted : DoubleText(v) = s
        THEN CHOOSE v \in denoted : DoubleText(v) = s
        ELSE 0

\* -------------------------------------------------------------- records
\* An empty QMap.
EmptyMap == [k \in {} |-> 0]

\* m[k] = v for a QMap: the entry is inserted or overwritten.
Put(m, k, v) == [x \in (DOMAIN m) \cup {k} |-> IF x = k THEN v ELSE m[x]]

\* QMap::remove
Remove(m, k) == [x \in (DOMAIN m) \ {k} |-> m[x]]

\* QRect(): the size of an item whose size was never set.
NullRect == [x |-> 0, y |-> 0, width |-> 0, height |-> 0]

\* ItemData::ItemData()
NewItemData ==
    [type |-> "", x |-> 0, y |-> 0, z |-> -1, size |-> NullRect,
     setSize |-> FALSE, angleDegrees |-> 0, flipped |-> FALSE,
     orientation |-> -1, parentId |-> "",
     dataString |-> EmptyMap, dataNumber |-> EmptyMap, dataColor |-> EmptyMap,
     dataRaw |-> EmptyMap, dataBool |-> EmptyMap,
     buttonMap |-> EmptyMap, sliderMap |-> EmptyMap]

\* ConnectorData::ConnectorData()
NewConnectorData ==
    [manualRoute |-> FALSE, route |-> <<>>,
     startNodeIsChild |-> FALSE, endNodeIsChild |-> FALSE,
     startNodeCId |-> "", startNodeParent |-> "", startNodeId |-> "",
     endNodeCId |-> "", endNodeParent |-> "", endNodeId |-> ""]

\* NodeData::NodeData()
NewNodeData == [x |-> 0, y |-> 0]

\* PinData::PinData()
NewPinData == [type |-> "pt_input", state |-> "ps_off"]

\* MicroData::MicroData()
NewMicroData ==
    [id |-> "", pinMap |-> EmptyMap, pinMappings |-> EmptyMap,
     variableMap |-> EmptyMap]

\* MicroData::reset(): the id and the pin map are cleared, nothing else.
MicroReset(m) == [m EXCEPT !.id = "", !.pinMap = EmptyMap]

\* ItemDocumentData::reset()
Reset(d) ==
    [itemDataMap |-> EmptyMap, connectorDataMap |-> EmptyMap,
     nodeDataMap |-> EmptyMap, microData |-> MicroReset(d.microData),
     documentType |-> "dt_none"]

\* ItemDocumentData::ItemDocumentData(documentType)
NewItemDocumentData(documentType) ==
    [itemDataMap |-> EmptyMap, connectorDataMap |-> EmptyMap,
     nodeDataMap |-> EmptyMap, microData |-> NewMicroData,
     documentType |-> documentType]

\* QColor: an invalid colour, or an RGB colour with an alpha channel.
InvalidColor == [valid |-> FALSE, rgb |-> "#000000", alpha |-> 255]

\* QColor::name(): "#rrggbb", the alpha channel is not part of the name.
ColorName(c) == c.rgb

\* QColor(name): "#rrggbb" names an opaque colour, other text an invalid one.
ColorFromName(n) ==
    IF Len(n) = 7 /\ CharAt(n, 0) = "#"
    THEN [valid |-> TRUE, rgb |-> n, alpha |-> 255]
    ELSE InvalidColor

\* ---------------------------------------------------------------- XML DOM
\* A QDomElement: its tag, its attributes (name -> text) and its children.
Element(tag, attrs, children) ==
    [tag |-> tag, attrs |-> attrs, children |-> children]

\* QDomElement::setAttribute on the attributes a: set or overwritten.
SetAttr(a, name, value) == Put(a, name, value)

\* QDomElement::attribute(name, default)
attribute(e, name, default) ==
    IF name \in DOMAIN e.attrs THEN e.attrs[name] ELSE default

hasAttribute(e, name) == name \in DOMAIN e.attrs

\* No document: the text could not be parsed (QDomDocument::setContent fails).
Malformed == [tag |-> "<malformed>", attrs |-> EmptyMap, children |-> <<>>]

\* ItemDocumentData::documentTypeString()
documentTypeString(documentType) ==
    CASE documentType = "dt_circuit" -> "circuit"
      [] documentType = "dt_flowcode" -> "flowcode"
      [] documentType = "dt_mechanics" -> "mechanics"
      [] OTHER -> "none"

\* ------------------------------------------------------------- XML writer
\* The attributes set by a run of setAttribute calls, given as <<name, value>>
\* pairs in call order.
RECURSIVE AttrsFrom(_, _)
AttrsFrom(pairs, n) ==
    IF n = 0 THEN EmptyMap
    ELSE SetAttr(AttrsFrom(pairs, n - 1), pairs[n][1], pairs[n][2])

Attrs(pairs) == AttrsFrom(pairs, Len(pairs))

\* The value attribute of a property of the given kind.
ValueText(kind, v) ==
    CASE kind = "string" -> v
      [] kind = "number" -> DoubleText(v)
      [] kind = "color" -> ColorName(v)
      [] kind = "raw" -> toAsciiHex(v)
      [] kind = "bool" -> BoolText(v)
      [] kind = "button" -> BoolText(v)
      [] kind = "slider" -> IntText(v)

\* One "data" child per entry of a property map, in key order.
DataElements(m, type) ==
    LET ks == SortKeys(DOMAIN m)
    IN  [i \in 1..Len(ks) |->
            Element("data",
                    Attrs(<<<<"id", ks[i]>>, <<"type", type>>,
                            <<"value", ValueText(type, m[ks[i]])>>>>),
                    <<>>)]

\* One "button" / "slider" child per entry, in key order.
StateElements(m, tag, attr) ==
    LET ks == SortKeys(DOMAIN m)
    IN  [i \in 1..Len(ks) |->
            Element(tag,
                    Attrs(<<<<"id", ks[i]>>, <<attr, ValueText(tag, m[ks[i]])>>>>),
                    <<>>)]

\* ItemDocumentData::itemDataToElement
itemDataToElement(itemData) ==
    Element("item",
        Attrs(<<<<"type", itemData.type>>,
                <<"x", IntText(itemData.x)>>,
                <<"y", IntText(itemData.y)>>>>
              \o (IF itemData.z # -1 THEN <<<<"z", IntText(itemData.z)>>>> ELSE <<>>)
              \o (IF itemData.setSize
                  THEN <<<<"offset-x", IntText(itemData.size.x)>>,
                         <<"offset-y", IntText(itemData.size.y)>>,
                         <<"width", IntText(itemData.size.width)>>,
                         <<"height", IntText(itemData.size.height)>>>>
                  ELSE <<>>)
              \o (IF itemData.orientation >= 0
                  THEN <<<<"orientation", IntText(itemData.orientation)>>>>
                  ELSE <<<<"angle", IntText(itemData.angleDegrees)>>,
                         <<"flip", BoolText(itemData.flipped)>>>>)
              \o (IF ~isEmpty(itemData.parentId)
                  THEN <<<<"parent", itemData.parentId>>>> ELSE <<>>)),
        DataElements(itemData.dataString, "string")
          \o DataElements(itemData.dataNumber, "number")
          \o DataElements(itemData.dataColor, "color")
          \o DataElements(itemData.dataRaw, "raw")
          \o DataElements(itemData.dataBool, "bool")
          \o StateElements(itemData.buttonMap, "button", "state")
          \o StateElements(itemData.sliderMap, "slider", "value"))

\* ItemDocumentData::nodeDataToElement
nodeDataToElement(nodeData) ==
    Element("node",
            Attrs(<<<<"x", IntText(nodeData.x)>>, <<"y", IntText(nodeData.y)>>>>),
            <<>>)

RECURSIVE RouteText(_, _)
\* route.append(number(x) + ","); route.append(number(y) + ","), per waypoint
RouteText(route, n) ==
    IF n = 0 THEN ""
    ELSE RouteText(route, n - 1)
           \o IntText(route[n][1]) \o "," \o IntText(route[n][2]) \o ","

\* ItemDocumentData::connectorDataToElement
connectorDataToElement(connectorData) ==
    Element("connector",
        Attrs(<<<<"manual-route", BoolText(connectorData.manualRoute)>>,
                <<"route", RouteText(connectorData.route, Len(connectorData.route))>>>>
              \o (IF connectorData.startNodeIsChild
                  THEN <<<<"start-node-is-child", "1">>,
                         <<"start-node-cid", connectorData.startNodeCId>>,
                         <<"start-node-parent", connectorData.startNodeParent>>>>
                  ELSE <<<<"start-node-is-child", "0">>,
                         <<"start-node-id", connectorData.startNodeId>>>>)
              \o (IF connectorData.endNodeIsChild
                  THEN <<<<"end-node-is-child", "1">>,
                         <<"end-node-cid", connectorData.endNodeCId>>,
                         <<"end-node-parent", connectorData.endNodeParent>>>>
                  ELSE <<<<"end-node-is-child", "0">>,
                         <<"end-node-id", connectorData.endNodeId>>>>)),
        <<>>)

\* The type attribute microDataToElement writes for a pin mapping: the switch
\* leaves it empty for PinMapping::Invalid.
PinMappingTypeText(type) ==
    CASE type = "SevenSegment" -> "sevensegment"
      [] type = "Keypad_4x3" -> "keypad_4x3"
      [] type = "Keypad_4x4" -> "keypad_4x4"
      [] OTHER -> ""

\* ItemDocumentData::microDataToElement
microDataToElement(microData) ==
    LET mk == SortKeys(DOMAIN microData.pinMappings)
        pk == SortKeys(DOMAIN microData.pinMap)
        vk == SortKeys(DOMAIN microData.variableMap)
    IN  Element("micro",
            Attrs(<<<<"id", microData.id>>>>),
            [i \in 1..Len(mk) |->
                Element("pinmap",
                    Attrs(<<<<"id", mk[i]>>,
                            <<"type", PinMappingTypeText(microData.pinMappings[mk[i]].type)>>,
                            <<"map", Join(microData.pinMappings[mk[i]].pins, " ")>>>>),
                    <<>>)]
            \o [i \in 1..Len(pk) |->
                Element("pin",
                    Attrs(<<<<"id", pk[i]>>,
                            <<"type", IF microData.pinMap[pk[i]].type = "pt_input"
                                      THEN "input" ELSE "output">>,
                            <<"state", IF microData.pinMap[pk[i]].state = "ps_off"
                                       THEN "off" ELSE "on">>>>),
                    <<>>)]
            \o [i \in 1..Len(vk) |->
                Element("variable",
                    Attrs(<<<<"name", vk[i]>>,
                            <<"value", microData.variableMap[vk[i]]>>>>),
                    <<>>)])

\* The element of a record of the map whose elements carry the given tag.
RecordElement(tag, record) ==
    CASE tag = "item" -> itemDataToElement(record)
      [] tag = "connector" -> connectorDataToElement(record)
      [] tag = "node" -> nodeDataToElement(record)

\* One child of the root per record of a map, its id attribute set last.
RecordElements(m, tag) ==
    LET ks == SortKeys(DOMAIN m)
    IN  [i \in 1..Len(ks) |->
            LET node == RecordElement(tag, m[ks[i]])
            IN  [node EXCEPT !.attrs = SetAttr(node.attrs, "id", ks[i])]]

\* ItemDocumentData::toXML: the document an ItemDocumentData is written as
\* (QDomDocument::toString and setContent carry the tree unchanged).
toXML(d) ==
    Element("document",
        Attrs(<<<<"type", documentTypeString(d.documentType)>>>>),
        RecordElements(d.itemDataMap, "item")
          \o RecordElements(d.connectorDataMap, "connector")
          \o RecordElements(d.nodeDataMap, "node")
          \o (IF d.documentType = "dt_flowcode"
              THEN <<microDataToElement(d.microData)>> ELSE <<>>))

\* ------------------------------------------------------------- XML reader
\* The PinMapping type a pinmap element's type attribute names.
PinMappingTypeOf(typeString) ==
    CASE typeString = "sevensegment" -> "SevenSegment"
      [] typeString = "keypad_4x3" -> "Keypad_4x3"
      [] typeString = "keypad_4x4" -> "Keypad_4x4"
      [] OTHER -> "Invalid"

\* One child of a micro element read into the MicroData m.
MicroChild(m, childElement) ==
    LET tagName == childElement.tag
    IN  CASE tagName = "pinmap" ->
              LET id == attribute(childElement, "id", NullQString)
                  typeString == attribute(childElement, "type", NullQString)
              IN  IF ~isEmpty(id) /\ ~isEmpty(typeString)
                  THEN [m EXCEPT !.pinMappings =
                           Put(@, id,
                               [type |-> PinMappingTypeOf(typeString),
                                pins |-> SplitSkipEmpty(
                                    Str(attribute(childElement, "map", NullQString)),
                                    " ")])]
                  ELSE m
          [] tagName = "pin" ->
              LET pinID == attribute(childElement, "id", NullQString)
              IN  IF ~isEmpty(pinID)
                  THEN [m EXCEPT !.pinMap =
                           Put(@, pinID,
                               [type |-> IF attribute(childElement, "type", "input") = "input"
                                         THEN "pt_input" ELSE "pt_output",
                                state |-> IF attribute(childElement, "state", "off") = "off"
                                          THEN "ps_off" ELSE "ps_on"])]
                  ELSE m
          [] tagName = "variable" ->
              [m EXCEPT !.variableMap =
                  Put(@, Str(attribute(childElement, "name", NullQString)),
                      Str(attribute(childElement, "value", NullQString)))]
          [] OTHER -> m

RECURSIVE MicroChildren(_, _, _)
MicroChildren(m, children, n) ==
    IF n = 0 THEN m
    ELSE MicroChild(MicroChildren(m, children, n - 1), children[n])

\* ItemDocumentData::elementToMicroData, on the MicroData m
elementToMicroData(m, element) ==
    LET id1 == attribute(element, "id", NullQString)
        id == IF isNull(id1) THEN attribute(element, "pic", NullQString) ELSE id1
    IN  IF isNull(id) THEN m
        ELSE MicroChildren([MicroReset(m) EXCEPT !.id = id],
                           element.children, Len(element.children))

\* The ItemData read from the attributes of an item element.
ItemDataOfAttributes(element) ==
    [NewItemData EXCEPT
        !.type = Str(attribute(element, "type", NullQString)),
        !.x = toInt(attribute(element, "x", "120")),
        !.y = toInt(attribute(element, "y", "120")),
        !.z = toInt(attribute(element, "z", "-1")),
        !.setSize = hasAttribute(element, "width") /\ hasAttribute(element, "height"),
        !.size = IF hasAttribute(element, "width") /\ hasAttribute(element, "height")
                 THEN [x |-> toInt(attribute(element, "offset-x", "0")),
                       y |-> toInt(attribute(element, "offset-y", "0")),
                       width |-> toInt(attribute(element, "width", "120")),
                       height |-> toInt(attribute(element, "height", "120"))]
                 ELSE NullRect,
        !.angleDegrees = toInt(attribute(element, "angle", "0")),
        !.flipped = toInt(attribute(element, "flip", "0")) # 0,
        !.orientation = toInt(attribute(element, "orientation", "-1")),
        !.parentId = Str(attribute(element, "parent", NullQString))]

\* A data, button or slider child read into the ItemData itemData.
ItemProperty(itemData, childElement) ==
    LET tagName == childElement.tag
        childId == attribute(childElement, "id", NullQString)
    IN  IF isNull(childId) THEN itemData
        ELSE CASE tagName = "data" ->
                 LET dataType == attribute(childElement, "type", NullQString)
                     value == Str(attribute(childElement, "value", NullQString))
                 IN  CASE dataType \in {"string", "multiline"} ->
                           [itemData EXCEPT !.dataString = Put(@, childId, value)]
                       [] dataType = "number" ->
                           [itemData EXCEPT !.dataNumber = Put(@, childId, toDouble(value))]
                       [] dataType = "color" ->
                           [itemData EXCEPT !.dataColor = Put(@, childId, ColorFromName(value))]
                       [] dataType = "raw" ->
                           [itemData EXCEPT !.dataRaw = Put(@, childId, toQBitArray(value))]
                       [] dataType = "bool" ->
                           [itemData EXCEPT !.dataBool = Put(@, childId, toInt(value) # 0)]
                       [] OTHER -> itemData
               [] tagName = "button" ->
                 [itemData EXCEPT !.buttonMap =
                     Put(@, childId, toInt(attribute(childElement, "state", "0")) # 0)]
               [] tagName = "slider" ->
                 [itemData EXCEPT !.sliderMap =
                     Put(@, childId, toInt(attribute(childElement, "value", "0")))]
               [] OTHER -> itemData

\* m_itemDataMap[id] as an lvalue: a missing entry is default-constructed.
AtItem(m, id) == IF id \in DOMAIN m THEN m[id] ELSE NewItemData

RECURSIVE elementToItemData(_, _), ItemChildren(_, _, _, _)
RECURSIVE ItemChildrenAsRead(_, _, _, _)
\* A plausible slip: a nested item keeps the parent its own attribute names.
ItemChildrenAsRead(m, id, children, n) ==
    IF n = 0 THEN m
    ELSE LET before == ItemChildrenAsRead(m, id, children, n - 1)
             childElement == children[n]
         IN  IF childElement.tag = "item"
             THEN elementToItemData(before, childElement)
             ELSE Put(before, id, ItemProperty(AtItem(before, id), childElement))

\* The children of the item element with the given id, read into the item
\* map m: a nested item is read as an item of its own and then given id as
\* its parent; every other child is a property of m[id].
ItemChildren(m, id, children, n) ==
    IF n = 0 THEN m
    ELSE LET before == ItemChildren(m, id, children, n - 1)
             childElement == children[n]
         IN  IF childElement.tag = "item"
             THEN LET read == elementToItemData(before, childElement)
                      childId == attribute(childElement, "id", NullQString)
                  IN  IF ~isNull(childId)
                      THEN Put(read, childId,
                               [AtItem(read, childId) EXCEPT !.parentId = id])
                      ELSE read
             ELSE Put(before, id, ItemProperty(AtItem(before, id), childElement))

\* ItemDocumentData::elementToItemData, on the item map m
elementToItemData(m, element) ==
    LET id == attribute(element, "id", NullQString)
    IN  IF isNull(id) THEN m
        ELSE ItemChildren(Put(m, id, ItemDataOfAttributes(element)), id,
                          element.children, Len(element.children))

\* A plausible slip: the record is stored without the test for an id.
elementToNodeDataUnchecked(m, element) ==
    Put(m, Str(attribute(element, "id", NullQString)),
        [x |-> toInt(attribute(element, "x", "120")),
         y |-> toInt(attribute(element, "y", "120"))])

\* ItemDocumentData::elementToNodeData, on the node map m
elementToNodeData(m, element) ==
    LET id == attribute(element, "id", NullQString)
    IN  IF isNull(id) THEN m
        ELSE Put(m, id, [x |-> toInt(attribute(element, "x", "120")),
                         y |-> toInt(attribute(element, "y", "120"))])

\* The waypoints of a route attribute: its parts are read two by two (the
\* writer always emits an even number of parts).
RoutePoints(route) ==
    LET points == IF isEmpty(route) THEN <<>> ELSE SplitSkipEmpty(route, ",")
    IN  [i \in 1..(Len(points) \div 2) |->
            <<toInt(points[2 * i - 1]), toInt(points[2 * i])>>]

\* ItemDocumentData::elementToConnectorData, on the connector map m
elementToConnectorData(m, element) ==
    LET id == attribute(element, "id", NullQString)
        startIsChild == toInt(attribute(element, "start-node-is-child", "0")) # 0
        endIsChild == toInt(attribute(element, "end-node-is-child", "0")) # 0
    IN  IF isNull(id) THEN m
        ELSE Put(m, id,
            [NewConnectorData EXCEPT
                !.manualRoute = (attribute(element, "manual-route", "0") = "1"),
                !.route = RoutePoints(attribute(element, "route", "")),
                !.startNodeIsChild = startIsChild,
                !.startNodeCId = IF startIsChild
                    THEN Str(attribute(element, "start-node-cid", NullQString)) ELSE "",
                !.startNodeParent = IF startIsChild
                    THEN Str(attribute(element, "start-node-parent", NullQString)) ELSE "",
                !.startNodeId = IF startIsChild THEN ""
                    ELSE Str(attribute(element, "start-node-id", NullQString)),
                !.endNodeIsChild = endIsChild,
                !.endNodeCId = IF endIsChild
                    THEN Str(attribute(element, "end-node-cid", NullQString)) ELSE "",
                !.endNodeParent = IF endIsChild
                    THEN Str(attribute(element, "end-node-parent", NullQString)) ELSE "",
                !.endNodeId = IF endIsChild THEN ""
                    ELSE Str(attribute(element, "end-node-id", NullQString))])

\* One child of the root element read into the snapshot d.
RootChild(d, element) ==
    LET tagName == element.tag
    IN  CASE tagName = "item" ->
              [d EXCEPT !.itemDataMap = elementToItemData(@, element)]
          [] tagName = "node" ->
              [d EXCEPT !.nodeDataMap = elementToNodeData(@, element)]
          [] tagName = "connector" ->
              [d EXCEPT !.connectorDataMap = elementToConnectorData(@, element)]
          [] tagName \in {"pic-settings", "micro"} ->
              [d EXCEPT !.microData = elementToMicroData(@, element)]
          [] OTHER -> d

RECURSIVE RootChildren(_, _, _)
RootChildren(d, children, n) ==
    IF n = 0 THEN d
    ELSE RootChild(RootChildren(d, children, n - 1), children[n])

\* A plausible slip: the snapshot is reset only once the text is parsed.
fromXMLResetLate(d, xmlDoc) ==
    IF xmlDoc = Malformed
    THEN [snapshot |-> d, ok |-> FALSE]
    ELSE [snapshot |-> RootChildren(Reset(d), xmlDoc.children, Len(xmlDoc.children)),
          ok |-> TRUE]

\* ItemDocumentData::fromXML on the snapshot d: the snapshot it leaves and
\* the value it returns. The root element's attributes are never read.
fromXML(d, xmlDoc) ==
    IF xmlDoc = Malformed
    THEN [snapshot |-> Reset(d), ok |-> FALSE]
    ELSE [snapshot |-> RootChildren(Reset(d), xmlDoc.children, Len(xmlDoc.children)),
          ok |-> TRUE]

\* ---------------------------------------------------- identifier remapper
\* The text of s before its first "__" (generateUID seeds a new identifier
\* with the old one, cut at "__": node__13 gives node).
RECURSIVE SeedFrom(_, _)
SeedFrom(s, i) ==
    IF i + 1 >= Len(s) THEN s
    ELSE IF SubSeq(s, i + 1, i + 2) = "__" THEN SubSeq(s, 1, i)
    ELSE SeedFrom(s, i + 1)

\* ItemDocument::generateUID(seed), given the identifiers registered with
\* the document: the identifiers it may return, each derived from the seed
\* and not registered. The one returned is registered by the call.
generateUID(uids, seed) ==
    ({SeedFrom(seed, 0)}
       \cup {SeedFrom(seed, 0) \o "__" \o ToString(n) : n \in 1..MaxUid})
    \ (uids \cup {""})

\* One pass of a "replace the old ids" loop at one key: the substitution
\* tables and registered identifiers that can result from the state st.
ReplaceKey(st, key) ==
    IF key \in DOMAIN st.replaced
    THEN {st}
    ELSE {[replaced |-> Put(st.replaced, key, u), uids |-> st.uids \cup {u}] :
             u \in generateUID(st.uids, key)}

RECURSIVE ReplaceKeysFrom(_, _, _)
\* The loop over the keys of one map, in key order.
ReplaceKeysFrom(states, keys, i) ==
    IF i > Len(keys) THEN states
    ELSE ReplaceKeysFrom(UNION {ReplaceKey(st, keys[i]) : st \in states}, keys, i + 1)

\* The tables generateUniqueIDs can build for the snapshot d: replaced[""] is
\* "", then the item keys, the node keys and the connector keys are given
\* new identifiers, a key already in the table keeping its entry.
ReplacedTables(d, uids) ==
    LET start == {[replaced |-> [k \in {""} |-> ""], uids |-> uids]}
        afterItems == ReplaceKeysFrom(start, SortKeys(DOMAIN d.itemDataMap), 1)
        afterNodes == ReplaceKeysFrom(afterItems, SortKeys(DOMAIN d.nodeDataMap), 1)
    IN  ReplaceKeysFrom(afterNodes, SortKeys(DOMAIN d.connectorDataMap), 1)

\* A plausible slip: an identifier without an entry is kept.
ReplacedOrKept(replaced, id) == IF id \in DOMAIN replaced THEN replaced[id] ELSE id

\* replaced[id] as an rvalue of QMap::operator[]: a missing entry reads as
\* the default QString().
Replaced(replaced, id) == IF id \in DOMAIN replaced THEN replaced[id] ELSE ""

\* A plausible slip: the records are stored under their old keys.
KeepKeys(m, replaced) == m

\* newMap[replaced[key]] = value, for every key of m in key order.
ReplaceKeys(m, replaced) ==
    [n \in {Replaced(replaced, k) : k \in DOMAIN m} |->
        LET last == CHOOSE k \in DOMAIN m :
                        /\ Replaced(replaced, k) = n
                        /\ \A o \in DOMAIN m :
                               Replaced(replaced, o) = n => (o = k \/ StrLess(o, k))
        IN  m[last]]

\* A plausible slip: the end node id is not replaced.
ReplaceStartReferencesOnly(connectorData, replaced) ==
    [connectorData EXCEPT
        !.startNodeParent = Replaced(replaced, @),
        !.endNodeParent = Replaced(replaced, @),
        !.startNodeId = Replaced(replaced, @)]

\* The four references of a connector record replaced.
ReplaceConnectorReferences(connectorData, replaced) ==
    [connectorData EXCEPT
        !.startNodeParent = Replaced(replaced, @),
        !.endNodeParent = Replaced(replaced, @),
        !.startNodeId = Replaced(replaced, @),
        !.endNodeId = Replaced(replaced, @)]

\* A plausible slip: the type of the item is looked up in the table too.
ReplaceItemTypeToo(itemData, replaced) ==
    [itemData EXCEPT !.parentId = Replaced(replaced, @),
                     !.type = Replaced(replaced, @)]

\* The parent reference of an item record replaced.
ReplaceItemReferences(itemData, replaced) ==
    [itemData EXCEPT !.parentId = Replaced(replaced, @)]

\* A plausible slip: the identifiers are left as they are.
KeepIDs(d, replaced) == d

\* ItemDocumentData::generateUniqueIDs on the snapshot d, with the table built.
generateUniqueIDs(d, replaced) ==
    LET newItemDataMap == ReplaceKeys(d.itemDataMap, replaced)
        newConnectorDataMap == ReplaceKeys(d.connectorDataMap, replaced)
        newNodeDataMap == ReplaceKeys(d.nodeDataMap, replaced)
    IN  [d EXCEPT
            !.itemDataMap = [k \in DOMAIN newItemDataMap |->
                ReplaceItemReferences(newItemDataMap[k], replaced)],
            !.connectorDataMap = [k \in DOMAIN newConnectorDataMap |->
                ReplaceConnectorReferences(newConnectorDataMap[k], replaced)],
            !.nodeDataMap = newNodeDataMap]

\* ---------------------------------------------------- geometry translation
\* A plausible slip: the quotient is rounded down (floor division).
FloorQuot(a, b) == a \div b

\* a / b for C++ ints, b > 0: the quotient is truncated toward zero.
Quot(a, b) == IF a >= 0 THEN a \div b ELSE -((-a) \div b)

\* ItemDocumentData::translateContents
translateContents(d, dx, dy) ==
    [d EXCEPT
        !.itemDataMap = [k \in DOMAIN @ |->
            [@[k] EXCEPT !.x = @ + dx, !.y = @ + dx]],
        !.nodeDataMap = [k \in DOMAIN @ |->
            [@[k] EXCEPT !.x = @ + dx, !.y = @ + dy]],
        !.connectorDataMap = [k \in DOMAIN @ |->
            [@[k] EXCEPT !.route = [i \in 1..Len(@) |->
                <<@[i][1] + Quot(dx, 8), @[i][2] + Quot(dy, 8)>>]]]]

\* ---------------------------------------------------------- live document
\* The live document (ItemDocument, ICNDocument and their entities) as the
\* snapshot operations see it: items, nodes and connectors by identifier,
\* the registered identifiers, the delete list, the selection, and the calls
\* the operations have made on the document and on its entities.
EmptyDocument(type, uids) ==
    [type |-> type, items |-> EmptyMap, nodes |-> EmptyMap,
     connectors |-> EmptyMap, uids |-> uids, deleteList |-> {},
     selection |-> {}, calls |-> <<>>]

\* The element of a set of one element. An operator that uses the document
\* it is given more than once takes it as The({... v ... : v \in {d}}), which
\* evaluates d once.
The(S) == CHOOSE x \in S : TRUE

\* dynamic_cast<ICNDocument *>(itemDocument) is not null
IsICNDocument(d) == d.type \in {"dt_circuit", "dt_flowcode", "dt_pinMapEditor"}

\* dynamic_cast<FlowCodeDocument *>(itemDocument) is not null
IsFlowCodeDocument(d) == d.type = "dt_flowcode"

\* PicItem::typeString()
PicItemTypeString == "microitem"

\* The call made on the document or on the entity id, appended to the calls.
Called(d, call, id) == [d EXCEPT !.calls = Append(@, [call |-> call, id |-> id])]

\* ItemDocument::itemWithID(id) is not null
HasItem(d, id) == id \in DOMAIN d.items

\* ICNDocument::nodeWithID(id) is not null
HasNode(d, id) == id \in DOMAIN d.nodes

\* ICNDocument::connectorWithID(id) is not null
HasConnector(d, id) == id \in DOMAIN d.connectors

\* The child slots an item of the given type is constructed with.
ChildSlots(type) ==
    CASE type = "ec/resistor" -> {"n1", "p1"}
      [] type = "ec/external_connection" -> {"p1"}
      [] type = "flow/delay" -> {"stdinput", "stdoutput"}
      [] OTHER -> {}

\* The types ItemLibrary::createItem has a factory for.
LibraryTypes == {"ec/resistor", "ec/external_connection", "flow/delay"}

\* An ECSubcircuit as its constructor leaves it: no pin yet.
NewSubcircuit ==
    [type |-> "ec/subcircuit", x |-> 0, y |-> 0, canvas |-> TRUE, visible |-> TRUE,
     parentItem |-> "", removedWith |-> "", finishedCreation |-> TRUE,
     itemData |-> [NewItemData EXCEPT !.type = "ec/subcircuit"],
     numExtCon |-> 0, extConName |-> EmptyMap]

\* ItemDocument::isValidItem for an item of the given type.
isValidItem(d, type) ==
    IF d.type \in {"dt_circuit", "dt_pinMapEditor"} THEN SubSeq(type, 1, 3) = "ec/"
    ELSE IF d.type = "dt_flowcode" THEN SubSeq(type, 1, 5) = "flow/"
    ELSE FALSE

\* The identifier of the node a CNItem has in the slot cid.
ChildNodeId(itemId, cid) == itemId \o "." \o cid

\* A node as its constructor leaves it.
NewNode(class, x, y, parentItem, cid) ==
    [class |-> class, x |-> x, y |-> y, canvas |-> TRUE, visible |-> TRUE,
     isChildNode |-> parentItem # "", parentItem |-> parentItem, cid |-> cid,
     removedWith |-> ""]

\* The nodes of the item id in the slots given, placed with the item.
ChildNodes(d, id, slots, x, y) ==
    [n \in {ChildNodeId(id, cid) : cid \in slots} |->
        LET cid == CHOOSE c \in slots : ChildNodeId(id, c) = n
        IN  NewNode(IF IsFlowCodeDocument(d) THEN "FPNode" ELSE "ECNode", x, y, id, cid)]

\* f and g together, g's entries taking precedence.
Merged(f, g) ==
    [k \in (DOMAIN f) \cup (DOMAIN g) |-> IF k \in DOMAIN g THEN g[k] ELSE f[k]]

\* f without the keys in S.
Without(f, S) == [k \in (DOMAIN f) \ S |-> f[k]]

\* An item as ItemLibrary::createItem(type, document, false, id) leaves it:
\* registered with the document under id, on the canvas, at the origin.
NewItem(type) ==
    [type |-> type, x |-> 0, y |-> 0, canvas |-> TRUE, visible |-> FALSE,
     parentItem |-> "", removedWith |-> "", finishedCreation |-> FALSE,
     itemData |-> [NewItemData EXCEPT !.type = type]]

\* ItemLibrary::createItem(type, d, false, id, false): no item for a type
\* that has no factory; an ICN item is constructed with its child nodes.
createItem(d, type, id) ==
    IF type \notin LibraryTypes
    THEN Called(d, "createItem (nullptr)", id)
    ELSE LET slots == IF IsICNDocument(d) THEN ChildSlots(type) ELSE {}
             nodes == ChildNodes(d, id, slots, 0, 0)
         IN  Called([d EXCEPT !.items = Put(@, id, NewItem(type)),
                              !.nodes = Merged(@, nodes),
                              !.uids = @ \cup {id} \cup DOMAIN nodes],
                    "createItem", id)

\* The nodes the item id owns.
NodesOf(d, id) == {n \in DOMAIN d.nodes : d.nodes[n].parentItem = id}

\* Item::move(x, y): the child nodes move with their item.
moveItem(d, id, x, y) ==
    Called([d EXCEPT
               !.items[id].x = x, !.items[id].y = y,
               !.nodes = [n \in DOMAIN @ |->
                   IF @[n].parentItem = id THEN [@[n] EXCEPT !.x = x, !.y = y]
                   ELSE @[n]]],
           "Item::move", id)

\* Item::removeItem(): the item and its child nodes leave the canvas and
\* wait on the delete list.
removeItem(d, id) ==
    Called([d EXCEPT
               !.items[id].canvas = FALSE, !.items[id].visible = FALSE,
               !.nodes = [n \in DOMAIN @ |->
                   IF @[n].parentItem = id
                   THEN [@[n] EXCEPT !.canvas = FALSE, !.visible = FALSE]
                   ELSE @[n]],
               !.deleteList = @ \cup {<<"item", id>>}
                                \cup {<<"node", n>> : n \in NodesOf(d, id)},
               !.selection = @ \ {<<"item", id>>}],
           "Item::removeItem", id)

\* Node::removeNode()
removeNode(d, id) ==
    Called([d EXCEPT
               !.nodes[id].canvas = FALSE, !.nodes[id].visible = FALSE,
               !.deleteList = @ \cup {<<"node", id>>}],
           "Node::removeNode", id)

\* Connector::removeConnectorNoArg()
removeConnector(d, id) ==
    Called([d EXCEPT
               !.connectors[id].canvas = FALSE, !.connectors[id].visible = FALSE,
               !.deleteList = @ \cup {<<"connector", id>>},
               !.selection = @ \ {<<"connector", id>>}],
           "Connector::removeConnectorNoArg", id)

\* ItemDocument::flushDeleteList(): the entities on the delete list are
\* deleted and their identifiers unregistered.
flushDeleteList(d) ==
    The({Called([v EXCEPT
                    !.items = Without(@, {e[2] : e \in {l \in v.deleteList : l[1] = "item"}}),
                    !.nodes = Without(@, {e[2] : e \in {l \in v.deleteList : l[1] = "node"}}),
                    !.connectors =
                        Without(@, {e[2] : e \in {l \in v.deleteList : l[1] = "connector"}}),
                    !.uids = @ \ {e[2] : e \in v.deleteList},
                    !.deleteList = {}],
                "flushDeleteList", "") : v \in {d}})

\* Item::restoreFromItemData(itemData): every field of the record applied.
restoreFromItemData(d, id, itemData) ==
    LET moved == moveItem(d, id, itemData.x, itemData.y)
    IN  Called([moved EXCEPT
                   !.calls = d.calls,
                   !.items[id].itemData = itemData,
                   !.items[id].parentItem = itemData.parentId],
               "Item::restoreFromItemData", id)

\* Item::finishedCreation()
finishedCreation(d, id) ==
    Called([d EXCEPT !.items[id].finishedCreation = TRUE], "Item::finishedCreation", id)

\* Item::show()
showItem(d, id) == Called([d EXCEPT !.items[id].visible = TRUE], "Item::show", id)

\* ItemDocument::select(entity)
select(d, kind, id) == Called([d EXCEPT !.selection = @ \cup {<<kind, id>>}], "select", id)

\* new JunctionNode / new JunctionFlowNode (document, 270, point, &id)
newJunction(d, class, id, x, y) ==
    Called([d EXCEPT !.nodes = Put(@, id, NewNode(class, x, y, "", "")),
                     !.uids = @ \cup {id}],
           "new " \o class, id)

\* Node::move(x, y)
moveNode(d, id, x, y) ==
    Called([d EXCEPT !.nodes[id].x = x, !.nodes[id].y = y], "Node::move", id)

\* CNItem::childNode(cid) of ICNDocument::cnItemWithID(parent): the
\* identifier of the node, "" for a null pointer.
childNode(d, parent, cid) ==
    IF HasItem(d, parent) /\ HasNode(d, ChildNodeId(parent, cid))
    THEN ChildNodeId(parent, cid) ELSE ""

\* A connector as its constructor leaves it, between two nodes.
NewConnector(class, startNode, endNode) ==
    [class |-> class, startNode |-> startNode, endNode |-> endNode,
     canvas |-> TRUE, visible |-> TRUE, removedWith |-> "",
     connectorData |-> NewConnectorData]

\* Connector::restoreFromConnectorData(connectorData)
restoreFromConnectorData(d, id, connectorData) ==
    Called([d EXCEPT !.connectors[id].connectorData = connectorData],
           "Connector::restoreFromConnectorData", id)

\* ------------------------------------------------------- mergeWithDocument
\* The body of the first "Restore Nodes" loop for one record: a node is
\* constructed if the key names no live node, in a circuit or a flow-code
\* document.
CreateNodeFor(d, id, nodeData) ==
    IF HasNode(d, id) THEN d
    ELSE IF d.type = "dt_circuit"
         THEN newJunction(d, "JunctionNode", id, nodeData.x, nodeData.y)
    ELSE IF d.type = "dt_flowcode"
         THEN newJunction(d, "JunctionFlowNode", id, nodeData.x, nodeData.y)
    ELSE d

RECURSIVE CreateNodesFrom(_, _, _, _)
CreateNodesFrom(d, nodeDataMap, keys, i) ==
    The({IF i > Len(keys) THEN v
         ELSE CreateNodesFrom(CreateNodeFor(v, keys[i], nodeDataMap[keys[i]]),
                              nodeDataMap, keys, i + 1) : v \in {d}})

\* A plausible slip: the node is moved by the recorded position
\* (Node::moveBy) instead of to it.
MoveNodeByFor(d, id, nodeData) ==
    IF HasNode(d, id)
    THEN moveNode(d, id, d.nodes[id].x + nodeData.x, d.nodes[id].y + nodeData.y)
    ELSE d

\* The body of the second "Restore Nodes" loop for one record: the live
\* node with the key is moved to the recorded position.
MoveNodeFor(d, id, nodeData) ==
    IF HasNode(d, id) THEN moveNode(d, id, nodeData.x, nodeData.y) ELSE d

RECURSIVE MoveNodesFrom(_, _, _, _)
MoveNodesFrom(d, nodeDataMap, keys, i) ==
    The({IF i > Len(keys) THEN v
         ELSE MoveNodesFrom(MoveNodeFor(v, keys[i], nodeDataMap[keys[i]]),
                            nodeDataMap, keys, i + 1) : v \in {d}})

\* "Restore Nodes"
RestoreNodes(snapshot, d) ==
    The({IF IsICNDocument(v)
         THEN MoveNodesFrom(
                  CreateNodesFrom(v, snapshot.nodeDataMap,
                                  SortKeys(DOMAIN snapshot.nodeDataMap), 1),
                  snapshot.nodeDataMap, SortKeys(DOMAIN snapshot.nodeDataMap), 1)
         ELSE v : v \in {d}})

\* A plausible slip: the item constructed is kept whether the document
\* considers it valid or not.
MoveInvalidToo(created, id, itemData) ==
    IF ~HasItem(created, id) THEN created
    ELSE moveItem(created, id, itemData.x, itemData.y)

\* The item just constructed (created is the document with it) is removed
\* again if the document considers it invalid, and moved otherwise.
MoveOrRemove(created, id, itemData) ==
    IF ~HasItem(created, id) THEN created
    ELSE IF ~isValidItem(created, itemData.type)
         THEN flushDeleteList(removeItem(Called(created, "qCWarning", id), id))
    ELSE moveItem(created, id, itemData.x, itemData.y)

\* The body of the first "Restore items" loop for one record.
CreateItemFor(d, id, itemData) ==
    IF ~isEmpty(itemData.type) /\ ~HasItem(d, id)
    THEN The({MoveOrRemove(created, id, itemData) :
                 created \in {createItem(d, itemData.type, id)}})
    ELSE d

RECURSIVE CreateItemsFrom(_, _, _, _)
CreateItemsFrom(d, itemDataMap, keys, i) ==
    The({IF i > Len(keys) THEN v
         ELSE CreateItemsFrom(CreateItemFor(v, keys[i], itemDataMap[keys[i]]),
                              itemDataMap, keys, i + 1) : v \in {d}})

\* The body of the second "Restore items" loop for one record.
RestoreItemFor(d, id, itemData, selectNew) ==
    IF ~HasItem(d, id) THEN d
    ELSE LET restored == finishedCreation(restoreFromItemData(d, id, itemData), id)
             selected == IF selectNew THEN select(restored, "item", id) ELSE restored
         IN  showItem(selected, id)

RECURSIVE RestoreItemsFrom(_, _, _, _, _)
RestoreItemsFrom(d, itemDataMap, keys, i, selectNew) ==
    The({IF i > Len(keys) THEN v
         ELSE RestoreItemsFrom(
                  RestoreItemFor(v, keys[i], itemDataMap[keys[i]], selectNew),
                  itemDataMap, keys, i + 1, selectNew) : v \in {d}})

\* A plausible slip: the second loop runs over the items of the document
\* and looks their records up with QMap::operator[], which gives an item
\* without a record a default one.
RestoreEveryItem(snapshot, d, selectNew) ==
    The({RestoreItemsFrom(
             v, [k \in DOMAIN v.items |->
                    IF k \in DOMAIN snapshot.itemDataMap THEN snapshot.itemDataMap[k]
                    ELSE NewItemData],
             SortKeys(DOMAIN v.items), 1, selectNew) :
         v \in {CreateItemsFrom(d, snapshot.itemDataMap,
                                SortKeys(DOMAIN snapshot.itemDataMap), 1)}})

\* "Restore items"
RestoreItems(snapshot, d, selectNew) ==
    RestoreItemsFrom(
        CreateItemsFrom(d, snapshot.itemDataMap, SortKeys(DOMAIN snapshot.itemDataMap), 1),
        snapshot.itemDataMap, SortKeys(DOMAIN snapshot.itemDataMap), 1, selectNew)

\* A plausible slip: the endpoint is taken as named, without looking for
\* the node in the document.
EndpointNodeUnchecked(d, isChild, parent, cid, nodeId) ==
    IF isChild THEN ChildNodeId(parent, cid) ELSE nodeId

\* The node an endpoint of a connector record names in the document: the
\* child node of the parent item or the node with the id, "" for none.
EndpointNode(d, isChild, parent, cid, nodeId) ==
    IF isChild
    THEN (IF HasItem(d, parent) THEN childNode(d, parent, cid) ELSE "")
    ELSE (IF HasNode(d, nodeId) THEN nodeId ELSE "")

\* The error logged while an endpoint is resolved: the parent is no item.
EndpointLogged(d, isChild, parent) ==
    IF isChild /\ ~HasItem(d, parent) THEN Called(d, "qCCritical", parent) ELSE d

\* The body of the first "Restore Connectors" loop for one record.
CreateConnectorFor(d, id, connectorData) ==
    IF HasConnector(d, id) THEN d
    ELSE LET startNode == EndpointNode(d, connectorData.startNodeIsChild,
                              connectorData.startNodeParent, connectorData.startNodeCId,
                              connectorData.startNodeId)
             endNode == EndpointNode(d, connectorData.endNodeIsChild,
                            connectorData.endNodeParent, connectorData.endNodeCId,
                            connectorData.endNodeId)
             logged == EndpointLogged(
                           EndpointLogged(d, connectorData.startNodeIsChild,
                                          connectorData.startNodeParent),
                           connectorData.endNodeIsChild, connectorData.endNodeParent)
             class == IF d.type \in {"dt_circuit", "dt_pinMapEditor"}
                      THEN "ElectronicConnector" ELSE "FlowConnector"
         IN  IF startNode = "" \/ endNode = ""
             THEN Called(logged, "qCCritical", id)
             ELSE Called([logged EXCEPT
                             !.connectors = Put(@, id, NewConnector(class, startNode, endNode)),
                             !.uids = @ \cup {id}],
                         "new " \o class, id)

RECURSIVE CreateConnectorsFrom(_, _, _, _)
CreateConnectorsFrom(d, connectorDataMap, keys, i) ==
    The({IF i > Len(keys) THEN v
         ELSE CreateConnectorsFrom(
                  CreateConnectorFor(v, keys[i], connectorDataMap[keys[i]]),
                  connectorDataMap, keys, i + 1) : v \in {d}})

\* The body of the second "Restore Connectors" loop for one record.
RestoreConnectorFor(d, id, connectorData, selectNew) ==
    IF ~HasConnector(d, id) THEN d
    ELSE LET restored == restoreFromConnectorData(d, id, connectorData)
         IN  IF selectNew THEN select(restored, "connector", id) ELSE restored

RECURSIVE RestoreConnectorsFrom(_, _, _, _, _)
RestoreConnectorsFrom(d, connectorDataMap, keys, i, selectNew) ==
    The({IF i > Len(keys) THEN v
         ELSE RestoreConnectorsFrom(
                  RestoreConnectorFor(v, keys[i], connectorDataMap[keys[i]], selectNew),
                  connectorDataMap, keys, i + 1, selectNew) : v \in {d}})

\* "Restore Connectors"
RestoreConnectors(snapshot, d, selectNew) ==
    The({IF IsICNDocument(v)
         THEN RestoreConnectorsFrom(
                  CreateConnectorsFrom(v, snapshot.connectorDataMap,
                                       SortKeys(DOMAIN snapshot.connectorDataMap), 1),
                  snapshot.connectorDataMap, SortKeys(DOMAIN snapshot.connectorDataMap),
                  1, selectNew)
         ELSE v : v \in {d}})

\* The types of the items that are FlowContainers.
FlowContainerTypes == {"flow/while"}

RECURSIVE UpdateContainersFrom(_, _, _)
\* Every FlowContainer of the list refreshes what it shows.
UpdateContainersFrom(d, keys, i) ==
    The({IF i > Len(keys) THEN v
         ELSE UpdateContainersFrom(
                  IF v.items[keys[i]].type \in FlowContainerTypes
                  THEN Called(v, "FlowContainer::updateContainedVisibility", keys[i])
                  ELSE v,
                  keys, i + 1) : v \in {d}})

\* "This is kind of hackish": the containers of a flow-code document.
UpdateContainers(d) ==
    The({IF IsFlowCodeDocument(v)
         THEN UpdateContainersFrom(v, SortKeys(DOMAIN v.items), 1)
         ELSE v : v \in {d}})

\* A plausible slip: the items are restored before the nodes.
mergeItemsFirst(snapshot, d, selectNew) ==
    UpdateContainers(
        RestoreConnectors(snapshot,
            RestoreNodes(snapshot, RestoreItems(snapshot, d, selectNew)),
            selectNew))

\* ItemDocumentData::mergeWithDocument(itemDocument, selectNew) for a
\* document that is not null: the document it leaves.
mergeWithDocument(snapshot, d, selectNew) ==
    UpdateContainers(
        RestoreConnectors(snapshot,
            RestoreItems(snapshot, RestoreNodes(snapshot, d), selectNew),
            selectNew))

\* --------------------------------------------------------- restoreDocument
RECURSIVE RemoveEveryItemFrom(_, _, _)
\* A plausible slip: the test for the PicItem type is left out.
RemoveEveryItemFrom(d, removeItems, i) ==
    IF i > Len(removeItems) THEN d
    ELSE RemoveEveryItemFrom(
             IF d.items[removeItems[i]].canvas
             THEN removeItem(d, removeItems[i]) ELSE d,
             removeItems, i + 1)

RECURSIVE RemoveItemsFrom(_, _, _)
\* The items of the list that are on the canvas and are no PicItem are removed.
RemoveItemsFrom(d, removeItems, i) ==
    The({IF i > Len(removeItems) THEN v
         ELSE RemoveItemsFrom(
                  IF v.items[removeItems[i]].canvas
                         /\ v.items[removeItems[i]].type # PicItemTypeString
                  THEN removeItem(v, removeItems[i]) ELSE v,
                  removeItems, i + 1) : v \in {d}})

\* The items the document has and the snapshot has not are removed.
RemoveItems(snapshot, d) ==
    The({RemoveItemsFrom(v, SortKeys(DOMAIN v.items \ DOMAIN snapshot.itemDataMap), 1) :
            v \in {d}})

RECURSIVE RemoveChildNodesToo(_, _, _)
\* A plausible slip: the child nodes of the list are removed as well.
RemoveChildNodesToo(d, removeNodes, i) ==
    The({IF i > Len(removeNodes) THEN v
         ELSE RemoveChildNodesToo(
                  IF v.nodes[removeNodes[i]].canvas
                  THEN removeNode(v, removeNodes[i]) ELSE v,
                  removeNodes, i + 1) : v \in {d}})

RECURSIVE RemoveNodesFrom(_, _, _)
\* The nodes of the list that are on the canvas and are no child nodes are
\* removed.
RemoveNodesFrom(d, removeNodes, i) ==
    The({IF i > Len(removeNodes) THEN v
         ELSE RemoveNodesFrom(
                  IF v.nodes[removeNodes[i]].canvas /\ ~v.nodes[removeNodes[i]].isChildNode
                  THEN removeNode(v, removeNodes[i]) ELSE v,
                  removeNodes, i + 1) : v \in {d}})

\* The nodes the ICN document has and the snapshot has not are removed.
RemoveNodes(snapshot, d) ==
    The({IF IsICNDocument(v)
         THEN RemoveNodesFrom(v, SortKeys(DOMAIN v.nodes \ DOMAIN snapshot.nodeDataMap), 1)
         ELSE v : v \in {d}})

\* A plausible slip: the connectors without a record are left alone.
KeepConnectors(d, removeConnectors, i) == d

RECURSIVE RemoveConnectorsFrom(_, _, _)
\* The connectors of the list that are on the canvas are removed.
RemoveConnectorsFrom(d, removeConnectors, i) ==
    The({IF i > Len(removeConnectors) THEN v
         ELSE RemoveConnectorsFrom(
                  IF v.connectors[removeConnectors[i]].canvas
                  THEN removeConnector(v, removeConnectors[i]) ELSE v,
                  removeConnectors, i + 1) : v \in {d}})

\* The connectors the ICN document has and the snapshot has not are removed.
RemoveConnectors(snapshot, d) ==
    The({IF IsICNDocument(v)
         THEN RemoveConnectorsFrom(
                  v, SortKeys(DOMAIN v.connectors \ DOMAIN snapshot.connectorDataMap), 1)
         ELSE v : v \in {d}})

\* FlowCodeDocument::setPicType(id) and
\* MicroSettings::restoreFromMicroData(microData)
restoreFromMicroData(d, microData) ==
    Called(Called(d, "FlowCodeDocument::setPicType", microData.id),
           "MicroSettings::restoreFromMicroData", microData.id)

\* ItemDocumentData::restoreDocument(itemDocument) for a document that is
\* not null: the document it leaves.
restoreDocument(snapshot, d) ==
    LET micro == IF IsFlowCodeDocument(d) /\ ~isEmpty(snapshot.microData.id)
                 THEN restoreFromMicroData(d, snapshot.microData)
                 ELSE d
    IN  flushDeleteList(
            RemoveConnectors(snapshot,
                RemoveNodes(snapshot,
                    RemoveItems(snapshot, mergeWithDocument(snapshot, micro, FALSE)))))

\* ------------------------------------------------------- saveDocumentState
\* Item::itemData() of the live item id: the record the item holds, with
\* its type, its place and its parent as they are now.
ItemDataOf(d, id) ==
    [d.items[id].itemData EXCEPT
        !.type = d.items[id].type,
        !.x = d.items[id].x, !.y = d.items[id].y,
        !.parentId = d.items[id].parentItem]

\* Node::nodeData() of the live node id.
NodeDataOf(d, id) == [x |-> d.nodes[id].x, y |-> d.nodes[id].y]

\* Connector::connectorData() of the live connector id, whose two nodes are
\* not null: an end at a child node is recorded by its item and slot, an end
\* at any other node by the node's identifier.
ConnectorDataOf(d, id) ==
    LET c == d.connectors[id]
        startIsChild == d.nodes[c.startNode].isChildNode
        endIsChild == d.nodes[c.endNode].isChildNode
    IN  [c.connectorData EXCEPT
            !.startNodeIsChild = startIsChild,
            !.startNodeCId = IF startIsChild THEN d.nodes[c.startNode].cid ELSE "",
            !.startNodeParent = IF startIsChild THEN d.nodes[c.startNode].parentItem ELSE "",
            !.startNodeId = IF startIsChild THEN "" ELSE c.startNode,
            !.endNodeIsChild = endIsChild,
            !.endNodeCId = IF endIsChild THEN d.nodes[c.endNode].cid ELSE "",
            !.endNodeParent = IF endIsChild THEN d.nodes[c.endNode].parentItem ELSE "",
            !.endNodeId = IF endIsChild THEN "" ELSE c.endNode]

\* A plausible slip: every live item is recorded.
EveryItem(d) == DOMAIN d.items

\* The items addItems records: on the canvas and no PicItem.
AddedItems(d) ==
    {k \in DOMAIN d.items : d.items[k].canvas /\ d.items[k].type # PicItemTypeString}

\* ItemDocumentData::addItems(itemDocument->itemList())
addItems(snapshot, d) ==
    [snapshot EXCEPT !.itemDataMap =
        Merged(@, [k \in AddedItems(d) |-> ItemDataOf(d, k)])]

\* The connectors addConnectors records: on the canvas, with a start node
\* and an end node ("" is the null pointer).
AddedConnectors(d) ==
    {k \in DOMAIN d.connectors :
        /\ d.connectors[k].canvas
        /\ d.connectors[k].startNode # "" /\ d.connectors[k].endNode # ""}

\* ItemDocumentData::addConnectors(icnd->connectorList())
addConnectors(snapshot, d) ==
    [snapshot EXCEPT !.connectorDataMap =
        Merged(@, [k \in AddedConnectors(d) |-> ConnectorDataOf(d, k)])]

\* The nodes addNodes records: on the canvas and no child nodes.
AddedNodes(d) ==
    {k \in DOMAIN d.nodes : d.nodes[k].canvas /\ ~d.nodes[k].isChildNode}

\* ItemDocumentData::addNodes(icnd->nodeList())
addNodes(snapshot, d) ==
    [snapshot EXCEPT !.nodeDataMap =
        Merged(@, [k \in AddedNodes(d) |-> NodeDataOf(d, k)])]

\* ItemDocumentData::saveDocumentState(itemDocument) for a document that is
\* not null; microData is fcd->microSettings()->microData(), or the record
\* reset() leaves when the document has no MicroSettings.
saveDocumentState(snapshot, d, microData) ==
    LET items == addItems(Reset(snapshot), d)
        graph == IF IsICNDocument(d)
                 THEN [addNodes(addConnectors(items, d), d) EXCEPT
                          !.microData = IF IsFlowCodeDocument(d) THEN microData ELSE @]
                 ELSE items
    IN  [graph EXCEPT !.documentType = d.type]

\* ------------------------------------------- SubcircuitData::initECSubcircuit
\* A plausible slip: the pairs are kept in the order they were inserted in.
MultimapAppend(seq, key, value) == Append(seq, <<key, value>>)

\* std::multimap<double, QString>::insert into the pairs held in seq: the
\* pair goes behind every pair whose key is not greater.
MultimapInsert(seq, key, value) ==
    The({LET before == Cardinality({j \in 1..Len(s) : s[j][1] <= key})
         IN  SubSeq(s, 1, before) \o <<<<key, value>>>> \o SubSeq(s, before + 1, Len(s)) :
            s \in {seq}})

RECURSIVE ExtConFrom(_, _, _, _)
\* The external connections of the item map, sorted by x coordinate.
ExtConFrom(extCon, itemDataMap, keys, i) ==
    The({IF i > Len(keys) THEN v
         ELSE ExtConFrom(
                  IF itemDataMap[keys[i]].type = "ec/external_connection"
                  THEN MultimapInsert(v, itemDataMap[keys[i]].x, keys[i])
                  ELSE v,
                  itemDataMap, keys, i + 1) : v \in {extCon}})

RECURSIVE PinsFrom(_, _, _, _, _, _)
\* The external connections at the positions from..to of extCon, sorted by
\* y coordinate.
PinsFrom(pins, extCon, itemDataMap, at, from, to) ==
    The({IF at > Len(extCon) THEN v
         ELSE PinsFrom(
                  IF from <= at /\ at <= to
                  THEN MultimapInsert(v, itemDataMap[extCon[at][2]].y, extCon[at][2])
                  ELSE v,
                  extCon, itemDataMap, at + 1, from, to) : v \in {pins}})

\* ECSubcircuit::setNumExtCon(numExtCon): the sub-circuit has a pin, with
\* its node, for every external connection.
setNumExtCon(d, id, numExtCon) ==
    LET slots == {IntText(i) : i \in 0..(numExtCon - 1)}
        nodes == ChildNodes(d, id, slots, d.items[id].x, d.items[id].y)
    IN  Called([d EXCEPT !.items[id].numExtCon = numExtCon,
                         !.nodes = Merged(@, nodes),
                         !.uids = @ \cup DOMAIN nodes],
               "ECSubcircuit::setNumExtCon", id)

\* ECSubcircuit::setExtConName(numId, name)
setExtConName(d, id, numId, name) ==
    Called([d EXCEPT !.items[id].extConName = Put(@, numId, name)],
           "ECSubcircuit::setExtConName", id)

\* dataString["name"] of a record: QMap::operator[] gives a null string for
\* a name that was never set.
NameOf(itemData) ==
    IF "name" \in DOMAIN itemData.dataString THEN itemData.dataString["name"]
    ELSE NullQString

RECURSIVE RemovePinsSameNumber(_, _, _, _, _)
\* A plausible slip: the pin number is not advanced in the loop.
RemovePinsSameNumber(st, pins, i, nodeId, step) ==
    IF i > Len(pins) THEN st
    ELSE RemovePinsSameNumber(
             [nodeMap |-> Put(st.nodeMap, pins[i][2], nodeId),
              doc |-> setExtConName(st.doc, st.ecSubcircuit, nodeId,
                                    NameOf(st.itemDataMap[pins[i][2]])),
              itemDataMap |-> Remove(st.itemDataMap, pins[i][2]),
              ecSubcircuit |-> st.ecSubcircuit],
             pins, i + 1, nodeId, step)

RECURSIVE RemovePinsFrom(_, _, _, _, _)
\* One "remove the external connections" loop over pins, numbering from
\* nodeId in steps of step: the pin numbers are recorded in st.nodeMap, the
\* names given to the sub-circuit, the records removed from the item map.
RemovePinsFrom(st, pins, i, nodeId, step) ==
    The({IF i > Len(pins) THEN v
         ELSE RemovePinsFrom(
                  [nodeMap |-> Put(v.nodeMap, pins[i][2], nodeId),
                   doc |-> setExtConName(v.doc, v.ecSubcircuit, nodeId,
                                         NameOf(v.itemDataMap[pins[i][2]])),
                   itemDataMap |-> Remove(v.itemDataMap, pins[i][2]),
                   ecSubcircuit |-> v.ecSubcircuit],
                  pins, i + 1, nodeId + step, step) : v \in {st}})

\* A plausible slip: only the start of the connector is led to the pin.
ReplaceExternalStartOnly(connectorData, nodeMap, ecSubcircuit) ==
    LET start == connectorData.startNodeIsChild
                     /\ connectorData.startNodeParent \in DOMAIN nodeMap
    IN  [connectorData EXCEPT
            !.startNodeCId = IF start THEN IntText(nodeMap[connectorData.startNodeParent])
                             ELSE @,
            !.startNodeParent = IF start THEN ecSubcircuit ELSE @]

\* The references of a connector record to removed external connections
\* replaced by references to the pins of the sub-circuit.
ReplaceExternalReferences(connectorData, nodeMap, ecSubcircuit) ==
    LET start == connectorData.startNodeIsChild
                     /\ connectorData.startNodeParent \in DOMAIN nodeMap
        end == connectorData.endNodeIsChild
                   /\ connectorData.endNodeParent \in DOMAIN nodeMap
    IN  [connectorData EXCEPT
            !.startNodeCId = IF start THEN IntText(nodeMap[connectorData.startNodeParent])
                             ELSE @,
            !.startNodeParent = IF start THEN ecSubcircuit ELSE @,
            !.endNodeCId = IF end THEN IntText(nodeMap[connectorData.endNodeParent])
                           ELSE @,
            !.endNodeParent = IF end THEN ecSubcircuit ELSE @]

\* A plausible slip: only the items are parented and hidden.
HideItemsOnly(d, snapshot, ecSubcircuit) ==
    [d EXCEPT
        !.items = [k \in DOMAIN @ |->
            IF k \in DOMAIN snapshot.itemDataMap
            THEN [@[k] EXCEPT !.parentItem = ecSubcircuit, !.visible = FALSE,
                              !.canvas = FALSE, !.removedWith = ecSubcircuit]
            ELSE @[k]]]

\* "Parent and hide the new stuff": the live items, connectors and nodes
\* with a record are taken off the canvas and removed with the sub-circuit.
HideWith(d, snapshot, ecSubcircuit) ==
    [d EXCEPT
        !.items = [k \in DOMAIN @ |->
            IF k \in DOMAIN snapshot.itemDataMap
            THEN [@[k] EXCEPT !.parentItem = ecSubcircuit, !.visible = FALSE,
                              !.canvas = FALSE, !.removedWith = ecSubcircuit]
            ELSE @[k]],
        !.connectors = [k \in DOMAIN @ |->
            IF k \in DOMAIN snapshot.connectorDataMap
            THEN [@[k] EXCEPT !.visible = FALSE, !.canvas = FALSE,
                              !.removedWith = ecSubcircuit]
            ELSE @[k]],
        !.nodes = [k \in DOMAIN @ |->
            IF k \in DOMAIN snapshot.nodeDataMap
            THEN [@[k] EXCEPT !.visible = FALSE, !.canvas = FALSE,
                              !.removedWith = ecSubcircuit]
            ELSE @[k]]]

\* The slots connected to the signal subcircuitDeleted of the sub-circuit,
\* in the order they were connected in: <<kind, id>> of the items, the
\* connectors and the nodes that are removed with it.
ConnectedSlots(d, ecSubcircuit) ==
    LET of(kind, entities) ==
            LET ids == SortKeys({k \in DOMAIN entities :
                                    entities[k].removedWith = ecSubcircuit})
            IN  [i \in 1..Len(ids) |-> <<kind, ids[i]>>]
    IN  of("item", d.items) \o of("connector", d.connectors) \o of("node", d.nodes)

RECURSIVE CallSlotsFrom(_, _, _)
\* The slots from the i-th on are called: Component::removeItem,
\* Connector::removeConnectorNoArg, Node::removeNode.
CallSlotsFrom(d, slots, i) ==
    The({IF i > Len(slots) THEN v
         ELSE CallSlotsFrom(
                  CASE slots[i][1] = "item" -> removeItem(v, slots[i][2])
                    [] slots[i][1] = "connector" -> removeConnector(v, slots[i][2])
                    [] OTHER -> removeNode(v, slots[i][2]),
                  slots, i + 1) : v \in {d}})

\* ECSubcircuit::removeItem(): the signal subcircuitDeleted is emitted and
\* the sub-circuit removed as an item is.
subcircuitDeleted(d, ecSubcircuit) ==
    removeItem(CallSlotsFrom(Called(d, "emit subcircuitDeleted", ecSubcircuit),
                             ConnectedSlots(d, ecSubcircuit), 1),
               ecSubcircuit)

\* --------------------------------------------------- codec specification
\* The variables a specification does not use keep these values.
IdleCodec == bits = <<>> /\ text = "" /\ data = <<>>

IdleSnapshot ==
    /\ snap = [itemDataMap |-> EmptyMap, connectorDataMap |-> EmptyMap,
               nodeDataMap |-> EmptyMap, microData |-> NewMicroData,
               documentType |-> "dt_none"]
    /\ snap0 = snap
    /\ xml = Malformed
    /\ ret = TRUE

\* A null ItemDocument pointer.
NoDocument == [type |-> "<null>"]

NoArguments == [op |-> "none"]

IdleDocument == doc = NoDocument /\ doc0 = NoDocument /\ arg = NoArguments

CodecInit ==
    /\ bits \in BitVectors
    /\ text = ""
    /\ data = <<>>
    /\ pc = "start"
    /\ IdleSnapshot
    /\ IdleDocument

Encode ==
    /\ pc = "start"
    /\ text' = toAsciiHex(bits)
    /\ pc' = "encoded"
    /\ UNCHANGED <<bits, data, snapVars, docVars>>

Decode ==
    /\ pc = "encoded"
    /\ data' = toQBitArray(text)
    /\ pc' = "decoded"
    /\ UNCHANGED <<bits, text, snapVars, docVars>>

CodecNext == Encode \/ Decode

SpecCodec == CodecInit /\ [][CodecNext]_vars

\* ----------------------------------------------- serialisation: the inputs
Coords == {-MaxCoord, 0, MaxCoord}

Red == [valid |-> TRUE, rgb |-> "#ff0000", alpha |-> 255]

\* Item records as Item::itemData() hands them out: angle and flip are used
\* with orientation -1, a size only with setSize.
ItemSamples ==
    {[NewItemData EXCEPT !.type = "ec/resistor", !.x = x, !.y = -x] : x \in Coords}
    \cup
    {[NewItemData EXCEPT !.type = "ec/resistor", !.angleDegrees = 90,
                         !.flipped = TRUE, !.z = 1],
     [NewItemData EXCEPT !.type = "flow/start", !.orientation = 1,
                         !.setSize = TRUE,
                         !.size = [x |-> -1, y |-> 0, width |-> 2, height |-> 1],
                         !.parentId = "a"],
     [NewItemData EXCEPT !.type = "ec/switch",
                         !.dataString = [k \in {"name"} |-> "in 1"],
                         !.dataBool = [k \in {"on"} |-> TRUE],
                         !.buttonMap = [k \in {"b"} |-> TRUE],
                         !.sliderMap = [k \in {"s"} |-> 2]],
     [NewItemData EXCEPT !.type = "ec/led",
                         !.dataColor = [k \in {"color"} |-> Red],
                         !.dataRaw = [k \in {"bits"} |-> <<TRUE, FALSE, TRUE, TRUE, TRUE>>]]}
    \cup
    {[NewItemData EXCEPT !.type = "ec/resistor",
                         !.dataNumber = [k \in {"resistance"} |-> v]] : v \in NumberValues}

ConnectorSamples ==
    {[NewConnectorData EXCEPT !.startNodeId = "n1", !.endNodeId = "n2"],
     [NewConnectorData EXCEPT !.manualRoute = TRUE,
                              !.route = <<<<1, 2>>, <<-MaxCoord, 0>>>>,
                              !.startNodeIsChild = TRUE, !.startNodeCId = "p1",
                              !.startNodeParent = "a", !.endNodeId = "n1"],
     [NewConnectorData EXCEPT !.route = <<<<0, MaxCoord>>>>,
                              !.startNodeIsChild = TRUE, !.startNodeCId = "n1",
                              !.startNodeParent = "a",
                              !.endNodeIsChild = TRUE, !.endNodeCId = "p1",
                              !.endNodeParent = "b"]}

NodeSamples == {[x |-> x, y |-> MaxCoord] : x \in Coords}

MicroSamples ==
    {[NewMicroData EXCEPT !.id = "p16f84"],
     [NewMicroData EXCEPT !.id = "p16f84",
         !.pinMap = [k \in {"ra0", "ra1"} |->
                        IF k = "ra0" THEN [type |-> "pt_output", state |-> "ps_on"]
                        ELSE NewPinData],
         !.pinMappings = [k \in {"seg"} |->
                        [type |-> "SevenSegment", pins |-> <<"ra0", "ra1">>]],
         !.variableMap = [k \in {"x"} |-> "5"]],
     [NewMicroData EXCEPT !.id = "p16f627",
         !.pinMappings = [k \in {"k3", "k4"} |->
                        IF k = "k3" THEN [type |-> "Keypad_4x3", pins |-> <<>>]
                        ELSE [type |-> "Keypad_4x4", pins |-> <<"rb0">>]]],
     [NewMicroData EXCEPT !.id = "p16f84",
         !.pinMappings = [k \in {"old"} |->
                        [type |-> "Invalid", pins |-> <<"ra0">>]]]}

\* The maps from a set of at most the given keys to the given records.
MapsOver(keys, records) == UNION {[ks -> records] : ks \in SUBSET keys}

\* The snapshots written and read back: item maps of every shape in a circuit
\* snapshot; connectors and nodes in a snapshot of each type; a flow-code
\* snapshot with each MicroData.
XmlSnapshots ==
    {[NewItemDocumentData("dt_circuit") EXCEPT !.itemDataMap = im] :
        im \in MapsOver({"a", "b"}, ItemSamples)}
    \cup
    {[NewItemDocumentData(t) EXCEPT !.connectorDataMap = cm, !.nodeDataMap = nm] :
        t \in {"dt_circuit", "dt_flowcode", "dt_mechanics", "dt_none"},
        cm \in MapsOver({"c1"}, ConnectorSamples),
        nm \in MapsOver({"n1"}, NodeSamples)}
    \cup
    {[NewItemDocumentData("dt_flowcode") EXCEPT !.itemDataMap = im, !.microData = md] :
        im \in MapsOver({"a"}, {[NewItemData EXCEPT !.type = "flow/start",
                                                     !.orientation = 0]}),
        md \in MicroSamples}

\* ------------------------------------------- serialisation specification
XmlInit ==
    /\ snap \in XmlSnapshots
    /\ snap0 = snap
    /\ xml = Malformed
    /\ ret = TRUE
    /\ pc = "start"
    /\ IdleCodec
    /\ IdleDocument

\* toXML() on the snapshot.
ToXML ==
    /\ pc = "start"
    /\ xml' = toXML(snap)
    /\ pc' = "written"
    /\ UNCHANGED <<snap, snap0, ret, codecVars, docVars>>

\* fromXML(xml) on a freshly constructed ItemDocumentData or on the object
\* that wrote the text.
FromXML ==
    /\ pc = "written"
    /\ \E target \in {snap, NewItemDocumentData(snap.documentType)} :
          LET r == fromXML(target, xml)
          IN  snap' = r.snapshot /\ ret' = r.ok
    /\ pc' = "parsed"
    /\ UNCHANGED <<snap0, xml, codecVars, docVars>>

XmlNext == ToXML \/ FromXML

SpecXML == XmlInit /\ [][XmlNext]_vars

\* ------------------------------------------------- parsing specification
\* The longest run of children of the root element that is read.
MaxUnits == 3

\* The children a root element is given: well-formed item, node and connector
\* elements, the same elements without their id attribute, an item whose
\* children hold a nested item without id, an element of a tag that is not
\* known, and the code element that is no longer used.
ParseUnits ==
    {Element("item", Attrs(<<<<"id", "a">>, <<"type", "ec/resistor">>, <<"x", "2">>>>),
        <<Element("data", Attrs(<<<<"id", "resistance">>, <<"type", "number">>,
                                  <<"value", "2">>>>), <<>>),
          Element("item", Attrs(<<<<"type", "ec/led">>>>), <<>>),
          Element("item", Attrs(<<<<"id", "b">>, <<"type", "ec/led">>,
                                  <<"parent", "zz">>>>), <<>>)>>),
     Element("item", Attrs(<<<<"type", "ec/resistor">>, <<"x", "2">>>>),
        <<Element("item", Attrs(<<<<"id", "c">>, <<"type", "ec/led">>>>), <<>>)>>),
     Element("item", Attrs(<<<<"id", "b">>, <<"type", "ec/battery">>>>), <<>>),
     Element("node", Attrs(<<<<"id", "n1">>, <<"x", "2">>, <<"y", "1">>>>), <<>>),
     Element("node", Attrs(<<<<"x", "2">>, <<"y", "1">>>>), <<>>),
     Element("connector", Attrs(<<<<"id", "c1">>, <<"start-node-id", "n1">>,
                                  <<"end-node-id", "n1">>>>), <<>>),
     Element("connector", Attrs(<<<<"start-node-id", "n1">>,
                                  <<"end-node-id", "n1">>>>), <<>>),
     Element("wire", Attrs(<<<<"id", "n1">>, <<"x", "2">>>>), <<>>),
     Element("code", EmptyMap, <<>>)}

\* The documents read: a root element over every run of at most MaxUnits
\* children, and a text that is no XML at all.
ParseDocuments ==
    {Element("document", Attrs(<<<<"type", "circuit">>>>), children) :
        children \in UNION {[1..n -> ParseUnits] : n \in 0..MaxUnits}}
    \cup {Malformed}

ParseInit ==
    /\ snap \in {NewItemDocumentData("dt_circuit"),
                 [NewItemDocumentData("dt_circuit") EXCEPT
                     !.nodeDataMap = [k \in {"old"} |-> NewNodeData]],
                 [NewItemDocumentData("dt_flowcode") EXCEPT
                     !.itemDataMap = [k \in {"old"} |-> NewItemData],
                     !.connectorDataMap = [k \in {"old"} |-> NewConnectorData],
                     !.microData = [NewMicroData EXCEPT
                         !.id = "p16f84",
                         !.pinMap = [k \in {"ra0"} |-> NewPinData]]]}
    /\ snap0 = snap
    /\ xml \in ParseDocuments
    /\ ret = FALSE
    /\ pc = "start"
    /\ IdleCodec
    /\ IdleDocument

\* fromXML(xml) on the snapshot, xml being the text of the document.
ParseXML ==
    /\ pc = "start"
    /\ \E r \in {fromXML(snap, xml)} :
          snap' = r.snapshot /\ ret' = r.ok
    /\ pc' = "read"
    /\ UNCHANGED <<snap0, xml, codecVars, docVars>>

SpecParse == ParseInit /\ [][ParseXML]_vars

\* ------------------------------------------------- remapper specification
\* Item records that differ in their parent reference: none, another item,
\* an identifier that is no key of the snapshot.
RemapItems ==
    {[NewItemData EXCEPT !.type = "ec/resistor", !.parentId = p] :
        p \in {"", "a", "b", "zz"}}

\* Connector records with plain and child references to keys of the
\* snapshot, with empty references and with one to no key of the snapshot.
RemapConnectors ==
    {[NewConnectorData EXCEPT !.startNodeId = "n1", !.endNodeId = "a"],
     [NewConnectorData EXCEPT !.startNodeIsChild = TRUE, !.startNodeCId = "p1",
                              !.startNodeParent = "a", !.endNodeId = "n1"],
     [NewConnectorData EXCEPT !.startNodeId = "zz",
                              !.endNodeIsChild = TRUE, !.endNodeCId = "b",
                              !.endNodeParent = "b"]}

\* The snapshots remapped: a node may have the identifier an item has, an
\* old key may be a generated one (a__1), and one item may have the empty key.
RemapSnapshots ==
    {[NewItemDocumentData("dt_circuit") EXCEPT
         !.itemDataMap = im, !.nodeDataMap = nm, !.connectorDataMap = cm] :
        im \in MapsOver({"a", "b"}, RemapItems)
               \cup {[k \in {"", "a__1"} |-> [NewItemData EXCEPT !.parentId = "a__1"]]},
        nm \in {[k \in ks |-> NewNodeData] : ks \in {{}, {"n1"}, {"n1", "a"}}},
        cm \in MapsOver({"c1"}, RemapConnectors)}

RemapInit ==
    /\ snap \in RemapSnapshots
    /\ snap0 = snap
    /\ xml = Malformed
    /\ ret = TRUE
    /\ doc \in {NoDocument, EmptyDocument("dt_circuit", {}),
                EmptyDocument("dt_circuit", {"a", "a__1", "n1"})}
    /\ doc0 = doc
    /\ arg = NoArguments
    /\ pc = "start"
    /\ IdleCodec

\* generateUniqueIDs(itemDocument): nothing is done for a null document.
GenerateUniqueIDs ==
    /\ pc = "start"
    /\ IF doc = NoDocument
       THEN /\ pc' = "returned"
            /\ UNCHANGED <<snap, doc, arg>>
       ELSE \E st \in ReplacedTables(snap, doc.uids) :
                /\ snap' = generateUniqueIDs(snap, st.replaced)
                /\ doc' = [doc EXCEPT !.uids = st.uids]
                /\ arg' = [op |-> "generateUniqueIDs", replaced |-> st.replaced]
                /\ pc' = "remapped"
    /\ UNCHANGED <<snap0, xml, ret, doc0, codecVars>>

SpecRemap == RemapInit /\ [][GenerateUniqueIDs]_vars

\* ---------------------------------------------- translation specification
TranslateItems ==
    {[NewItemData EXCEPT !.type = "ec/resistor", !.x = x, !.y = 120] : x \in {0, 16}}

TranslateConnectors ==
    {[NewConnectorData EXCEPT !.startNodeId = "n1", !.endNodeId = "n2",
                              !.route = r] :
        r \in {<<>>, <<<<2, 15>>, <<-3, 0>>>>}}

TranslateSnapshots ==
    {[NewItemDocumentData("dt_circuit") EXCEPT
         !.itemDataMap = im, !.nodeDataMap = nm, !.connectorDataMap = cm] :
        im \in MapsOver({"a", "b"}, TranslateItems),
        nm \in MapsOver({"n1"}, {[x |-> -8, y |-> 24]}),
        cm \in MapsOver({"c1"}, TranslateConnectors)}

\* The offsets given to translateContents.
Deltas == {-80, -9, -8, -1, 0, 7, 8, 80, 160}

TranslateInit ==
    /\ snap \in TranslateSnapshots
    /\ snap0 = snap
    /\ xml = Malformed
    /\ ret = TRUE
    /\ pc = "start"
    /\ IdleCodec
    /\ IdleDocument

\* translateContents(dx, dy)
TranslateContents ==
    /\ pc = "start"
    /\ \E dx, dy \in Deltas :
          /\ snap' = translateContents(snap, dx, dy)
          /\ arg' = [op |-> "translateContents", dx |-> dx, dy |-> dy]
    /\ pc' = "translated"
    /\ UNCHANGED <<snap0, xml, ret, doc, doc0, codecVars>>

SpecTranslate == TranslateInit /\ [][TranslateContents]_vars

\* ------------------------------------------ merge / restore specification
\* Item records merged: a resistor at two places, one with a parent, a
\* record without a type, a flow part, a type no factory knows.
MergeItems ==
    {[NewItemData EXCEPT !.type = "ec/resistor", !.x = MaxCoord],
     [NewItemData EXCEPT !.type = "ec/resistor", !.y = -MaxCoord, !.parentId = "a"],
     NewItemData,
     [NewItemData EXCEPT !.type = "flow/delay", !.y = MaxCoord],
     [NewItemData EXCEPT !.type = "ec/nonesuch"]}

MergeNodes == {[x |-> 0, y |-> 0], [x |-> MaxCoord, y |-> -MaxCoord]}

\* Connector records between nodes, between a child node and a node, and
\* with an end that may name nothing in the document.
MergeConnectors ==
    {[NewConnectorData EXCEPT !.startNodeId = "n1", !.endNodeId = "n2"],
     [NewConnectorData EXCEPT !.startNodeIsChild = TRUE, !.startNodeCId = "p1",
                              !.startNodeParent = "a", !.endNodeId = "n1",
                              !.manualRoute = TRUE, !.route = <<<<1, 0>>>>],
     [NewConnectorData EXCEPT !.startNodeIsChild = TRUE, !.startNodeCId = "n1",
                              !.startNodeParent = "b",
                              !.endNodeIsChild = TRUE, !.endNodeCId = "zz",
                              !.endNodeParent = "a"],
     [NewConnectorData EXCEPT !.startNodeId = "n1", !.endNodeId = "zz"]}

MergeSnapshots ==
    {[NewItemDocumentData("dt_circuit") EXCEPT
         !.itemDataMap = im, !.nodeDataMap = nm, !.connectorDataMap = cm] :
        im \in MapsOver({"a", "b"}, MergeItems),
        nm \in MapsOver({"n1"}, MergeNodes)
               \cup {[k \in {"n1", "n2"} |-> [x |-> 0, y |-> 0]]},
        cm \in MapsOver({"c1"}, MergeConnectors)
               \cup {[k \in {"c1", "c2"} |->
                        IF k = "c1" THEN [NewConnectorData EXCEPT
                                             !.startNodeId = "n1", !.endNodeId = "zz"]
                        ELSE [NewConnectorData EXCEPT
                                 !.startNodeId = "n1", !.endNodeId = "n2"]]}}
    \cup
    {[NewItemDocumentData("dt_flowcode") EXCEPT
         !.itemDataMap = im, !.microData.id = id] :
        im \in MapsOver({"a", "b"}, MergeItems), id \in {"", "P16F84"}}

\* The document d at rest: nothing called yet.
AtRest(d) == [d EXCEPT !.calls = <<>>]

\* A circuit with the resistors a and x, the junctions n1 and nx, and the
\* connectors c1 (from a's pin p1 to n1) and cx (from n1 to nx).
CircuitDocument ==
    LET items == moveItem(createItem(
                     moveItem(createItem(EmptyDocument("dt_circuit", {}),
                                         "ec/resistor", "a"), "a", -MaxCoord, 0),
                     "ec/resistor", "x"), "x", 0, MaxCoord)
        nodes == newJunction(newJunction(items, "JunctionNode", "n1", MaxCoord, MaxCoord),
                             "JunctionNode", "nx", -MaxCoord, -MaxCoord)
    IN  AtRest([nodes EXCEPT
                   !.connectors =
                       [k \in {"c1", "cx"} |->
                           IF k = "c1"
                           THEN NewConnector("ElectronicConnector",
                                             ChildNodeId("a", "p1"), "n1")
                           ELSE NewConnector("ElectronicConnector", "n1", "nx")],
                   !.uids = @ \cup {"c1", "cx"},
                   !.items["a"].visible = TRUE, !.items["x"].visible = TRUE])

\* A circuit that holds a sub-circuit and, off the canvas, the resistor h,
\* the junction nh and the connector ch the sub-circuit was made of.
CircuitWithSubcircuit ==
    LET sub == [EmptyDocument("dt_circuit", {"sub"}) EXCEPT
                   !.items = Put(@, "sub", NewSubcircuit)]
        inner == newJunction(createItem(sub, "ec/resistor", "h"),
                             "JunctionNode", "nh", 0, 0)
        wired == [inner EXCEPT
                     !.connectors = Put(@, "ch", NewConnector("ElectronicConnector",
                                                 ChildNodeId("h", "n1"), "nh")),
                     !.uids = @ \cup {"ch"}]
    IN  AtRest(HideWith(wired,
                        [NewItemDocumentData("dt_circuit") EXCEPT
                            !.itemDataMap = [k \in {"h"} |-> NewItemData],
                            !.nodeDataMap = [k \in {"nh"} |-> NewNodeData],
                            !.connectorDataMap = [k \in {"ch"} |-> NewConnectorData]],
                        "sub"))

\* A flow-code document with its PicItem, a while loop and the delay b.
FlowCodeDocument ==
    LET pic == [EmptyDocument("dt_flowcode", {"pic", "w"}) EXCEPT
                   !.items = [k \in {"pic", "w"} |->
                       [NewItem(IF k = "pic" THEN PicItemTypeString ELSE "flow/while")
                           EXCEPT !.visible = TRUE, !.finishedCreation = TRUE]]]
    IN  AtRest(showItem(moveItem(createItem(pic, "flow/delay", "b"), "b", 0, 0), "b"))

\* A mechanics document (no ICNDocument) with the item x.
MechanicsDocument ==
    [EmptyDocument("dt_mechanics", {"x"}) EXCEPT
        !.items = [k \in {"x"} |-> [NewItem("mech/box") EXCEPT !.visible = TRUE]]]

\* The live documents a snapshot is merged with.
MergeDocuments ==
    {EmptyDocument("dt_circuit", {}), EmptyDocument("dt_flowcode", {}),
     EmptyDocument("dt_pinMapEditor", {}), CircuitDocument,
     CircuitWithSubcircuit, FlowCodeDocument, MechanicsDocument}

MergeInit ==
    /\ snap \in MergeSnapshots
    /\ snap0 = snap
    /\ xml = Malformed
    /\ ret = TRUE
    /\ doc \in MergeDocuments \cup {NoDocument}
    /\ doc0 = doc
    /\ arg = NoArguments
    /\ pc = "start"
    /\ IdleCodec

\* mergeWithDocument(itemDocument, selectNew), a first time and then once
\* more with the same arguments; nothing is done for a null document.
MergeWithDocument ==
    /\ pc \in {"start", "merged"}
    /\ IF doc = NoDocument
       THEN /\ pc' = "returned"
            /\ UNCHANGED <<doc, arg>>
       ELSE \E selectNew \in IF pc = "start" THEN BOOLEAN ELSE {arg.selectNew} :
                /\ doc' = mergeWithDocument(snap, doc, selectNew)
                /\ arg' = [op |-> "mergeWithDocument", selectNew |-> selectNew,
                           before |-> doc]
                /\ pc' = IF pc = "start" THEN "merged" ELSE "merged twice"
    /\ UNCHANGED <<snap, snap0, xml, ret, doc0, codecVars>>

\* restoreDocument(itemDocument); nothing is done for a null document.
RestoreDocument ==
    /\ pc = "start"
    /\ IF doc = NoDocument
       THEN /\ pc' = "returned"
            /\ UNCHANGED <<doc, arg>>
       ELSE /\ doc' = restoreDocument(snap, doc)
            /\ arg' = [op |-> "restoreDocument", before |-> doc]
            /\ pc' = "restored"
    /\ UNCHANGED <<snap, snap0, xml, ret, doc0, codecVars>>

MergeNext == MergeWithDocument \/ RestoreDocument

SpecMerge == MergeInit /\ [][MergeNext]_vars

\* ---------------------------------------------------- capture specification
\* The circuit of CircuitDocument with the connector c1 without its start
\* node or cx without its end node, and with the resistor x, the junction nx
\* or the connector cx off the canvas.
CircuitVariants ==
    {[CircuitDocument EXCEPT
         !.connectors["c1"].startNode = start,
         !.connectors["cx"].endNode = end,
         !.connectors["cx"].canvas = onCanvas[1],
         !.items["x"].canvas = onCanvas[2],
         !.nodes["nx"].canvas = onCanvas[3]] :
        start \in {"", ChildNodeId("a", "p1")}, end \in {"", "nx"},
        onCanvas \in [1..3 -> BOOLEAN]}

\* The live documents whose state is saved.
SaveDocuments == MergeDocuments \cup CircuitVariants

\* The snapshots a document's state is saved in: a new one and one that
\* holds records and MicroData.
SaveSnapshots ==
    {NewItemDocumentData("dt_none"),
     [NewItemDocumentData("dt_flowcode") EXCEPT
         !.itemDataMap = [k \in {"old"} |-> NewItemData],
         !.nodeDataMap = [k \in {"old"} |-> NewNodeData],
         !.connectorDataMap = [k \in {"old"} |-> NewConnectorData],
         !.microData = [NewMicroData EXCEPT
                           !.id = "p16f84", !.variableMap = [k \in {"x"} |-> "5"]]]}

SaveInit ==
    /\ snap \in SaveSnapshots
    /\ snap0 = snap
    /\ xml = Malformed
    /\ ret = TRUE
    /\ doc \in SaveDocuments \cup {NoDocument}
    /\ doc0 = doc
    /\ arg = NoArguments
    /\ pc = "start"
    /\ IdleCodec

\* saveDocumentState(itemDocument); nothing is done for a null document. A
\* flow-code document gives the MicroData of its MicroSettings, if it has
\* MicroSettings.
SaveDocumentState ==
    /\ pc = "start"
    /\ IF doc = NoDocument
       THEN /\ pc' = "returned"
            /\ UNCHANGED snap
       ELSE /\ \E microData \in IF IsFlowCodeDocument(doc)
                                THEN MicroSamples \cup {MicroReset(snap.microData)}
                                ELSE {NewMicroData} :
                   snap' = saveDocumentState(snap, doc, microData)
            /\ pc' = "saved"
    /\ UNCHANGED <<snap0, xml, ret, docVars, codecVars>>

\* restoreDocument(itemDocument) of the snapshot on the document whose state
\* it has just saved.
RestoreSaved ==
    /\ pc = "saved"
    /\ doc' = restoreDocument(snap, doc)
    /\ arg' = [op |-> "restoreDocument", before |-> doc]
    /\ pc' = "saved and restored"
    /\ UNCHANGED <<snapVars, doc0, codecVars>>

SaveNext == SaveDocumentState \/ RestoreSaved

SpecSave == SaveInit /\ [][SaveNext]_vars

\* ------------------------------------------------ sub-circuit specification
\* An external connection at (x, y) with the given name.
ExternalConnection(x, y, name) ==
    [NewItemData EXCEPT !.type = "ec/external_connection", !.x = x, !.y = y,
                        !.dataString = [k \in {"name"} |-> name]]

\* The places an external connection with the given key is drawn at.
ExternalPlaces(key) ==
    CASE key = "a" -> {<<0, 5>>, <<10, 20>>}
      [] key = "a__1" -> {<<0, 20>>, <<0, 5>>}
      [] key = "b" -> {<<10, 5>>, <<0, 5>>}
      [] key = "c" -> {<<10, 20>>, <<10, 5>>}

\* Item maps of up to four external connections.
SubcircuitItems ==
    UNION {{[k \in ks |-> ExternalConnection(at[k][1], at[k][2], "pin " \o k)] :
              at \in {f \in [ks -> {<<0, 5>>, <<0, 20>>, <<10, 5>>, <<10, 20>>}] :
                         \A k \in ks : f[k] \in ExternalPlaces(k)}} :
           ks \in SUBSET {"a", "a__1", "b", "c"}}

\* What is drawn between the external connections: nothing; the resistor r
\* connected to a; r and the junction n1, which is connected to c.
SubcircuitInner ==
    LET r == [k \in {"r"} |-> [NewItemData EXCEPT !.type = "ec/resistor", !.x = 5]]
    IN  {[items |-> EmptyMap, nodes |-> EmptyMap, connectors |-> EmptyMap],
         [items |-> r, nodes |-> EmptyMap,
          connectors |-> [k \in {"c1"} |->
              [NewConnectorData EXCEPT
                  !.startNodeIsChild = TRUE, !.startNodeCId = "p1",
                  !.startNodeParent = "a",
                  !.endNodeIsChild = TRUE, !.endNodeCId = "n1",
                  !.endNodeParent = "r"]]],
         [items |-> r, nodes |-> [k \in {"n1"} |-> NewNodeData],
          connectors |-> [k \in {"c1"} |->
              [NewConnectorData EXCEPT
                  !.startNodeId = "n1",
                  !.endNodeIsChild = TRUE, !.endNodeCId = "p1",
                  !.endNodeParent = "c"]]]}

SubcircuitSnapshots ==
    {[NewItemDocumentData("dt_circuit") EXCEPT
         !.itemDataMap = Merged(im, inner.items), !.nodeDataMap = inner.nodes,
         !.connectorDataMap = inner.connectors] :
        im \in SubcircuitItems, inner \in SubcircuitInner}

\* The identifier of the ECSubcircuit that is initialised.
SubcircuitId == "sub"

\* The circuit the sub-circuit is in: it has the resistor r, and most of
\* the identifiers the keys of the snapshots seed are taken.
SubcircuitDocument ==
    LET sub == [EmptyDocument("dt_circuit", {SubcircuitId}) EXCEPT
                   !.items = Put(@, SubcircuitId, NewSubcircuit)]
        r == AtRest(showItem(createItem(sub, "ec/resistor", "r"), "r"))
    IN  [r EXCEPT !.uids = @ \cup {"a", "b", "c", "c1", "n1"}
                             \cup {k \o "__1" : k \in {"b", "c", "r", "c1", "n1"}}]

\* The same circuit with the junction n1 and the connector c1 from the
\* resistor's pin p1 to it: live entities under keys of the snapshots.
SubcircuitWiredDocument ==
    LET nodes == newJunction(SubcircuitDocument, "JunctionNode", "n1",
                             MaxCoord, MaxCoord)
    IN  AtRest([nodes EXCEPT
                   !.connectors = Put(@, "c1", NewConnector("ElectronicConnector",
                                               ChildNodeId("r", "p1"), "n1"))])

SubcircuitInit ==
    /\ snap \in SubcircuitSnapshots
    /\ snap0 = snap
    /\ xml = Malformed
    /\ ret = TRUE
    /\ doc \in {NoDocument, SubcircuitDocument, SubcircuitWiredDocument}
    /\ doc0 = doc
    /\ arg = NoArguments
    /\ pc = "start"
    /\ IdleCodec

\* initECSubcircuit(ecSubcircuit): nothing is done for a null sub-circuit
\* (no document here). Otherwise the identifiers are regenerated (unique),
\* the external connections sorted (extCon, pins), removed and numbered
\* (removed), the connectors led to the pins (rewired), the rest merged
\* with the document, parented and hidden.
InitECSubcircuit ==
    /\ pc = "start"
    /\ IF doc = NoDocument
       THEN /\ pc' = "returned"
            /\ UNCHANGED <<snap, doc, arg>>
       ELSE \E st \in ReplacedTables(snap, doc.uids) :
            \E unique \in {generateUniqueIDs(snap, st.replaced)} :
            \E extCon \in {ExtConFrom(<<>>, unique.itemDataMap,
                                      SortKeys(DOMAIN unique.itemDataMap), 1)} :
            \E size \in {(Len(extCon) \div 2) + (Len(extCon) % 2)} :
            \E pins \in {[left |-> PinsFrom(<<>>, extCon, unique.itemDataMap, 1, 1, size),
                          right |-> PinsFrom(<<>>, extCon, unique.itemDataMap, 1,
                                             size + 1, Len(extCon))]} :
            \E left \in {RemovePinsFrom(
                              [nodeMap |-> EmptyMap,
                               doc |-> setNumExtCon([doc EXCEPT !.uids = st.uids],
                                                    SubcircuitId, Len(extCon)),
                               itemDataMap |-> unique.itemDataMap,
                               ecSubcircuit |-> SubcircuitId],
                              pins.left, 1, 0, 1)} :
            \E removed \in {RemovePinsFrom(left, pins.right, 1, Len(extCon) - 1, -1)} :
            \E rewired \in {[unique EXCEPT
                                !.itemDataMap = removed.itemDataMap,
                                !.connectorDataMap = [k \in DOMAIN @ |->
                                    ReplaceExternalReferences(@[k], removed.nodeMap,
                                                              SubcircuitId)]]} :
            \E merged \in {mergeWithDocument(rewired, removed.doc, FALSE)} :
                /\ snap' = rewired
                /\ doc' = Called(HideWith(merged, rewired, SubcircuitId),
                                 "ECSubcircuit::doneSCInit", SubcircuitId)
                /\ arg' = [op |-> "initECSubcircuit", ecSubcircuit |-> SubcircuitId,
                           replaced |-> st.replaced, nodeMap |-> removed.nodeMap]
                /\ pc' = "initialised"
    /\ UNCHANGED <<snap0, xml, ret, doc0, codecVars>>

\* The sub-circuit is removed from its document after it was initialised.
SubcircuitDeleted ==
    /\ pc = "initialised"
    /\ doc' = subcircuitDeleted(doc, SubcircuitId)
    /\ arg' = [arg EXCEPT !.op = "subcircuitDeleted"]
    /\ pc' = "deleted"
    /\ UNCHANGED <<snapVars, doc0, codecVars>>

\* The document deletes what is on its delete list.
FlushDeleteList ==
    /\ pc = "deleted"
    /\ doc' = flushDeleteList(doc)
    /\ arg' = [arg EXCEPT !.op = "flushDeleteList"]
    /\ pc' = "flushed"
    /\ UNCHANGED <<snapVars, doc0, codecVars>>

SubcircuitNext == InitECSubcircuit \/ SubcircuitDeleted \/ FlushDeleteList

SpecSubcircuit == SubcircuitInit /\ [][SubcircuitNext]_vars

\* ------------------------------------------------------------------ claims
\* A raw property read back: the original padded with false bits to a
\* multiple of 4 bits.
SameUpToPadding(orig, back) ==
    /\ Len(back) = 4 * ((Len(orig) + 3) \div 4)
    /\ \A i \in 1..Len(orig) : back[i] = orig[i]
    /\ \A i \in (Len(orig) + 1)..Len(back) : back[i] = FALSE

SameItemData(orig, back) ==
    /\ \A f \in {"type", "x", "y", "z", "size", "setSize", "angleDegrees",
                 "flipped", "orientation", "parentId", "dataString",
                 "dataNumber", "dataColor", "dataBool", "buttonMap",
                 "sliderMap"} : back[f] = orig[f]
    /\ DOMAIN back.dataRaw = DOMAIN orig.dataRaw
    /\ \A k \in DOMAIN orig.dataRaw : SameUpToPadding(orig.dataRaw[k], back.dataRaw[k])

\* The endpoint variants: a child reference is its slot and its parent item,
\* a plain reference is its node id.
SameConnectorData(orig, back) ==
    /\ back.manualRoute = orig.manualRoute
    /\ back.route = orig.route
    /\ back.startNodeIsChild = orig.startNodeIsChild
    /\ back.endNodeIsChild = orig.endNodeIsChild
    /\ IF orig.startNodeIsChild
       THEN /\ back.startNodeCId = orig.startNodeCId
            /\ back.startNodeParent = orig.startNodeParent
       ELSE back.startNodeId = orig.startNodeId
    /\ IF orig.endNodeIsChild
       THEN /\ back.endNodeCId = orig.endNodeCId
            /\ back.endNodeParent = orig.endNodeParent
       ELSE back.endNodeId = orig.endNodeId

\* C1: fromXML(toXML(S)) has the item, connector and node key sets of S and
\* field-for-field equal records, raw properties compared up to padding.
C1_RoundTrip ==
    pc = "parsed" =>
        /\ DOMAIN snap.itemDataMap = DOMAIN snap0.itemDataMap
        /\ DOMAIN snap.connectorDataMap = DOMAIN snap0.connectorDataMap
        /\ DOMAIN snap.nodeDataMap = DOMAIN snap0.nodeDataMap
        /\ \A id \in DOMAIN snap0.itemDataMap :
               SameItemData(snap0.itemDataMap[id], snap.itemDataMap[id])
        /\ \A id \in DOMAIN snap0.connectorDataMap :
               SameConnectorData(snap0.connectorDataMap[id], snap.connectorDataMap[id])
        /\ \A id \in DOMAIN snap0.nodeDataMap :
               snap.nodeDataMap[id] = snap0.nodeDataMap[id]

\* C2: the snapshot read back from the text of a circuit, flow-code or
\* mechanics snapshot has that snapshot's document type.
C2_TypeRoundTrip ==
    (pc = "parsed" /\ snap0.documentType \in {"dt_circuit", "dt_flowcode", "dt_mechanics"})
        => snap.documentType = snap0.documentType

\* C3: the snapshot read back from the text of a flow-code snapshot has its
\* microcontroller id, pin map, pin mappings and variable map.
C3_MicroRoundTrip ==
    (pc = "parsed" /\ snap0.documentType = "dt_flowcode") =>
        /\ snap.microData.id = snap0.microData.id
        /\ snap.microData.pinMap = snap0.microData.pinMap
        /\ snap.microData.pinMappings = snap0.microData.pinMappings
        /\ snap.microData.variableMap = snap0.microData.variableMap

BitAt(i) == IF i <= Len(bits) /\ bits[i] THEN 1 ELSE 0

\* C4: decode(encode(v)) has length ceil(n/4)*4, agrees with v on its first n
\* bits and is false on the padding; encode emits ceil(n/4) lowercase hex
\* digits, digit i being the sum of bit[4i+j]*2^j; four false bits encode to
\* "0", and the empty text decodes to the empty vector.
C4_CodecRoundTrip ==
    LET n == Len(bits)
        q == (n + 3) \div 4
    IN  /\ pc \in {"encoded", "decoded"} =>
            /\ Len(text) = q
            /\ \A i \in 0..(q - 1) :
                   CharAt(text, i) =
                       CharAt("0123456789abcdef",
                              BitAt(4*i + 1) + 2 * BitAt(4*i + 2)
                                + 4 * BitAt(4*i + 3) + 8 * BitAt(4*i + 4))
            /\ (bits = <<FALSE, FALSE, FALSE, FALSE>> => text = "0")
        /\ pc = "decoded" =>
            /\ Len(data) = 4 * q
            /\ \A i \in 1..n : data[i] = bits[i]
            /\ \A i \in (n + 1)..(4 * q) : data[i] = FALSE
            /\ (Len(text) = 0 => Len(data) = 0)

\* A vector whose length is no multiple of 4 and whose last bit is set has
\* been encoded and decoded.
C4_Witness ==
    /\ pc = "decoded"
    /\ Len(bits) = 5
    /\ bits[5] /\ bits[2]

\* The keys of the three maps of a snapshot.
Keys(d) == DOMAIN d.itemDataMap \cup DOMAIN d.nodeDataMap \cup DOMAIN d.connectorDataMap

\* C5: the substitution is one to one on the non-empty keys and fixes the
\* empty string; every map keeps its number of records, each record stored
\* under the image of its old key.
C5_RemapBijection ==
    pc = "remapped" =>
        LET r == arg.replaced IN
        /\ \A k1, k2 \in Keys(snap0) \ {""} : k1 # k2 => r[k1] # r[k2]
        /\ r[""] = ""
        /\ Cardinality(DOMAIN snap.itemDataMap) = Cardinality(DOMAIN snap0.itemDataMap)
        /\ Cardinality(DOMAIN snap.nodeDataMap) = Cardinality(DOMAIN snap0.nodeDataMap)
        /\ Cardinality(DOMAIN snap.connectorDataMap)
             = Cardinality(DOMAIN snap0.connectorDataMap)
        /\ DOMAIN snap.itemDataMap = {r[k] : k \in DOMAIN snap0.itemDataMap}
        /\ DOMAIN snap.nodeDataMap = {r[k] : k \in DOMAIN snap0.nodeDataMap}
        /\ DOMAIN snap.connectorDataMap = {r[k] : k \in DOMAIN snap0.connectorDataMap}
        /\ \A k \in DOMAIN snap0.itemDataMap :
               [snap.itemDataMap[r[k]] EXCEPT !.parentId = ""]
                   = [snap0.itemDataMap[k] EXCEPT !.parentId = ""]
        /\ \A k \in DOMAIN snap0.nodeDataMap :
               snap.nodeDataMap[r[k]] = snap0.nodeDataMap[k]
        /\ \A k \in DOMAIN snap0.connectorDataMap :
               [snap.connectorDataMap[r[k]] EXCEPT
                    !.startNodeId = "", !.endNodeId = "",
                    !.startNodeParent = "", !.endNodeParent = ""]
                 = [snap0.connectorDataMap[k] EXCEPT
                    !.startNodeId = "", !.endNodeId = "",
                    !.startNodeParent = "", !.endNodeParent = ""]

\* A snapshot with an item and a node of one identifier, a second item and a
\* connector has been remapped, and some key changed.
C5_Witness ==
    /\ pc = "remapped"
    /\ {"a", "b"} \subseteq DOMAIN snap0.itemDataMap
    /\ "a" \in DOMAIN snap0.nodeDataMap
    /\ "c1" \in DOMAIN snap0.connectorDataMap
    /\ arg.replaced["a"] # "a"

\* C6: a reference field that held a key of the snapshot holds its image, and
\* one that was empty is empty, for the parent id of every item and the four
\* references of every connector.
C6_ReferencesRemapped ==
    pc = "remapped" =>
        LET r == arg.replaced
            Image(old, new) == /\ old \in Keys(snap0) => new = r[old]
                               /\ old = "" => new = ""
        IN
        /\ \A k \in DOMAIN snap0.itemDataMap :
               /\ r[k] \in DOMAIN snap.itemDataMap
               /\ Image(snap0.itemDataMap[k].parentId, snap.itemDataMap[r[k]].parentId)
        /\ \A k \in DOMAIN snap0.connectorDataMap :
               /\ r[k] \in DOMAIN snap.connectorDataMap
               /\ \A f \in {"startNodeId", "endNodeId", "startNodeParent", "endNodeParent"} :
                      Image(snap0.connectorDataMap[k][f], snap.connectorDataMap[r[k]][f])

\* An item whose parent got a new identifier and a connector with a plain
\* end reference to a remapped key have been remapped.
C6_Witness ==
    /\ pc = "remapped"
    /\ \E k \in DOMAIN snap0.itemDataMap :
           /\ snap0.itemDataMap[k].parentId \in DOMAIN snap0.itemDataMap
           /\ snap.itemDataMap[arg.replaced[k]].parentId # snap0.itemDataMap[k].parentId
    /\ \E k \in DOMAIN snap0.connectorDataMap :
           /\ snap0.connectorDataMap[k].endNodeId \in Keys(snap0) \ {""}
           /\ snap0.connectorDataMap[k].startNodeId \in Keys(snap0) \ {""}

\* C10: translate(dx, dy) adds dx to x and dy to y of every item and node.
C10_TranslateItemsAndNodes ==
    pc = "translated" =>
        /\ \A k \in DOMAIN snap0.itemDataMap :
               /\ snap.itemDataMap[k].x = snap0.itemDataMap[k].x + arg.dx
               /\ snap.itemDataMap[k].y = snap0.itemDataMap[k].y + arg.dy
        /\ \A k \in DOMAIN snap0.nodeDataMap :
               /\ snap.nodeDataMap[k].x = snap0.nodeDataMap[k].x + arg.dx
               /\ snap.nodeDataMap[k].y = snap0.nodeDataMap[k].y + arg.dy

\* The live identifiers of a document with the positions of its items and
\* nodes.
LiveEntities(d) ==
    [items |-> {<<k, d.items[k].x, d.items[k].y>> : k \in DOMAIN d.items},
     nodes |-> {<<k, d.nodes[k].x, d.nodes[k].y>> : k \in DOMAIN d.nodes},
     connectors |-> DOMAIN d.connectors]

\* The calls made on the document d since it was the document before.
CallsSince(d, before) == SubSeq(d.calls, Len(before.calls) + 1, Len(d.calls))

\* The calls that construct an item, a node or a connector.
Constructions ==
    {"createItem", "new JunctionNode", "new JunctionFlowNode",
     "new ElectronicConnector", "new FlowConnector"}

\* The calls of the sequence that construct an entity.
ConstructedBy(calls) ==
    {calls[i] : i \in {j \in 1..Len(calls) : calls[j].call \in Constructions}}

\* C7: a second merge of the same snapshot leaves the live identifier sets
\* and the positions as the first merge left them, and constructs nothing.
C7_MergeIdempotent ==
    pc = "merged twice" =>
        /\ LiveEntities(doc) = LiveEntities(arg.before)
        /\ ConstructedBy(CallsSince(doc, arg.before)) = {}

\* C7 (amended): a second merge of the same snapshot leaves the live
\* identifier sets and the positions as the first merge left them; all it
\* constructs are the items the document considers invalid, which it
\* removes again.
C7_MergeIdempotentOnLive ==
    pc = "merged twice" =>
        /\ LiveEntities(doc) = LiveEntities(arg.before)
        /\ \A c \in ConstructedBy(CallsSince(doc, arg.before)) :
               /\ c.call = "createItem"
               /\ c.id \in DOMAIN snap.itemDataMap
               /\ ~isValidItem(doc, snap.itemDataMap[c.id].type)
               /\ c.id \notin DOMAIN doc.items

\* A second merge after a first one that constructed an item, a node and a
\* connector and moved a node that was live; the second constructs an
\* invalid item again.
C7_Witness ==
    /\ pc = "merged twice"
    /\ {c.call : c \in ConstructedBy(CallsSince(arg.before, doc0))}
           = {"createItem", "new JunctionNode", "new ElectronicConnector"}
    /\ \E n \in DOMAIN doc0.nodes \cap DOMAIN snap.nodeDataMap :
           doc0.nodes[n].x # snap.nodeDataMap[n].x
    /\ ConstructedBy(CallsSince(doc, arg.before)) # {}
    /\ DOMAIN doc.connectors \ DOMAIN doc0.connectors # {}

\* The items of a document that are PicItems.
PicItems(d) == {k \in DOMAIN d.items : d.items[k].type = PicItemTypeString}

\* C8: after restoreDocument the live item, node and connector identifiers
\* are the keys of the snapshot's three maps, PicItems aside.
C8_RestoreConvergence ==
    pc = "restored" =>
        /\ DOMAIN doc.items \ PicItems(doc) = DOMAIN snap.itemDataMap \ PicItems(doc)
        /\ DOMAIN doc.nodes = DOMAIN snap.nodeDataMap
        /\ DOMAIN doc.connectors = DOMAIN snap.connectorDataMap

\* C8 (amended): after restoreDocument every live item on the canvas that
\* is no PicItem has a record, and in an ICN document so has every live
\* node on the canvas that is no child node and every live connector on the
\* canvas; an item record names a live item if an item was live under its
\* key or its type can be constructed and is valid in the document, and in
\* a circuit or flow-code document every node record names a live node.
C8_RestorePrunesCanvas ==
    pc = "restored" =>
        /\ \A k \in DOMAIN doc.items :
               (doc.items[k].canvas /\ k \notin PicItems(doc))
                   => k \in DOMAIN snap.itemDataMap
        /\ IsICNDocument(doc) =>
               /\ \A k \in DOMAIN doc.nodes :
                      (doc.nodes[k].canvas /\ ~doc.nodes[k].isChildNode)
                          => k \in DOMAIN snap.nodeDataMap
               /\ \A k \in DOMAIN doc.connectors :
                      doc.connectors[k].canvas => k \in DOMAIN snap.connectorDataMap
        /\ \A k \in DOMAIN snap.itemDataMap :
               (\/ k \in DOMAIN arg.before.items
                \/ /\ snap.itemDataMap[k].type \in LibraryTypes
                   /\ isValidItem(doc, snap.itemDataMap[k].type))
                   <=> k \in DOMAIN doc.items
        /\ doc.type \in {"dt_circuit", "dt_flowcode"} =>
               DOMAIN snap.nodeDataMap \subseteq DOMAIN doc.nodes

\* A restore that removed an item, a node and a connector, constructed an
\* item, and left live an item off the canvas that has no record.
C8_Witness ==
    /\ pc = "restored"
    /\ DOMAIN arg.before.items \ DOMAIN doc.items # {}
    /\ DOMAIN arg.before.nodes \ DOMAIN doc.nodes # {}
    /\ DOMAIN arg.before.connectors \ DOMAIN doc.connectors # {}
    /\ DOMAIN doc.items \ DOMAIN arg.before.items # {}
    /\ \E k \in DOMAIN doc.nodes : doc.nodes[k].isChildNode

\* The external connections of a snapshot.
ExternalConnections(d) ==
    {k \in DOMAIN d.itemDataMap : d.itemDataMap[k].type = "ec/external_connection"}

\* The four external connections of the example, under the keys they have
\* in the snapshots.
ExampleConnections(d) ==
    /\ ExternalConnections(d) = {"a", "a__1", "b", "c"}
    /\ <<d.itemDataMap["a"].x, d.itemDataMap["a"].y>> = <<0, 5>>
    /\ <<d.itemDataMap["a__1"].x, d.itemDataMap["a__1"].y>> = <<0, 20>>
    /\ <<d.itemDataMap["b"].x, d.itemDataMap["b"].y>> = <<10, 5>>
    /\ <<d.itemDataMap["c"].x, d.itemDataMap["c"].y>> = <<10, 20>>

\* C9: of n external connections the ceil(n/2) with the least x become the
\* left pins 0 .. ceil(n/2)-1, numbered by ascending y; the others become
\* the right pins, numbered from n-1 downward by ascending y; the four of
\* the example get the pins 0, 1, 3 and 2.
C9_PinOrdering ==
    pc = "initialised" =>
        LET markers == ExternalConnections(snap0)
            n == Cardinality(markers)
            size == (n + 1) \div 2
            pin == [k \in markers |-> arg.nodeMap[arg.replaced[k]]]
            x == [k \in markers |-> snap0.itemDataMap[k].x]
            y == [k \in markers |-> snap0.itemDataMap[k].y]
            left == {k \in markers : pin[k] < size}
            right == markers \ left
        IN  /\ DOMAIN arg.nodeMap = {arg.replaced[k] : k \in markers}
            /\ Cardinality(left) = size
            /\ {pin[k] : k \in left} = 0..(size - 1)
            /\ {pin[k] : k \in right} = size..(n - 1)
            /\ \A l \in left, r \in right : x[l] <= x[r]
            /\ \A k, o \in left : y[k] < y[o] => pin[k] < pin[o]
            /\ \A k, o \in right : y[k] < y[o] => pin[k] > pin[o]
            /\ ExampleConnections(snap0) =>
                   <<pin["a"], pin["a__1"], pin["b"], pin["c"]>> = <<0, 1, 3, 2>>

\* The four external connections of the example have been given their pins.
C9_Witness ==
    /\ pc = "initialised"
    /\ ExampleConnections(snap0)
    /\ Cardinality(DOMAIN arg.nodeMap) = 4

\* n / 8 truncated toward zero, said without a division: the integer s
\* nearest to zero with |n - 8 s| < 8.
TruncatedEighth(n) ==
    CHOOSE s \in (-Abs(n))..Abs(n) :
        IF n >= 0 THEN 8 * s <= n /\ n < 8 * s + 8
        ELSE 8 * s - 8 < n /\ n <= 8 * s

\* C11: translate(dx, dy) shifts every waypoint of every route by
\* (dx/8, dy/8), the quotients truncated toward zero: (80, 160) shifts by
\* (10, 20), |dx| < 8 leaves the x of the waypoints alone; the routes keep
\* their length and order.
C11_TranslateRoutes ==
    pc = "translated" =>
        /\ DOMAIN snap.connectorDataMap = DOMAIN snap0.connectorDataMap
        /\ \A k \in DOMAIN snap0.connectorDataMap :
               LET old == snap0.connectorDataMap[k].route
                   new == snap.connectorDataMap[k].route
               IN  /\ Len(new) = Len(old)
                   /\ \A i \in 1..Len(old) :
                          /\ new[i][1] = old[i][1] + TruncatedEighth(arg.dx)
                          /\ new[i][2] = old[i][2] + TruncatedEighth(arg.dy)
                          /\ (arg.dx = 80 /\ arg.dy = 160) =>
                                 new[i] = <<old[i][1] + 10, old[i][2] + 20>>
                          /\ Abs(arg.dx) < 8 => new[i][1] = old[i][1]

\* A route of two waypoints has been translated by a negative dx that is no
\* multiple of 8.
C11_Witness ==
    /\ pc = "translated"
    /\ arg.dx = -9 /\ arg.dy = 160
    /\ \E k \in DOMAIN snap0.connectorDataMap :
           /\ Len(snap0.connectorDataMap[k].route) = 2
           /\ snap.connectorDataMap[k].route[1]
                  = <<snap0.connectorDataMap[k].route[1][1] - 1,
                      snap0.connectorDataMap[k].route[1][2] + 20>>

\* The start (end = FALSE) or end (end = TRUE) of a connector record names a
\* node of the document d: a live node by its id, or a live item and the
\* node that item has in the slot.
Resolves(d, c, end) ==
    LET isChild == IF end THEN c.endNodeIsChild ELSE c.startNodeIsChild
        parent == IF end THEN c.endNodeParent ELSE c.startNodeParent
        cid == IF end THEN c.endNodeCId ELSE c.startNodeCId
        nodeId == IF end THEN c.endNodeId ELSE c.startNodeId
    IN  IF isChild
        THEN /\ parent \in DOMAIN d.items
             /\ \E n \in DOMAIN d.nodes :
                    d.nodes[n].parentItem = parent /\ d.nodes[n].cid = cid
        ELSE nodeId \in DOMAIN d.nodes

\* C12: a merge makes no connector for a record with an end that names no
\* node, and makes and restores the connector of every other record (that
\* had no live connector) whose two ends name nodes.
C12_UnresolvedConnectorSkipped ==
    (pc \in {"merged", "merged twice"} /\ IsICNDocument(doc)) =>
        \A k \in DOMAIN snap.connectorDataMap \ DOMAIN arg.before.connectors :
            LET c == snap.connectorDataMap[k]
            IN  IF Resolves(doc, c, FALSE) /\ Resolves(doc, c, TRUE)
                THEN /\ k \in DOMAIN doc.connectors
                     /\ doc.connectors[k].connectorData = c
                     /\ doc.connectors[k].startNode \in DOMAIN doc.nodes
                     /\ doc.connectors[k].endNode \in DOMAIN doc.nodes
                ELSE k \notin DOMAIN doc.connectors

\* A merge of two connector records, the first with an end that names no
\* node: only the second has a live connector.
C12_Witness ==
    /\ pc = "merged"
    /\ DOMAIN snap.connectorDataMap = {"c1", "c2"}
    /\ DOMAIN doc.connectors \ DOMAIN doc0.connectors = {"c2"}
    /\ ~Resolves(doc, snap.connectorDataMap["c1"], TRUE)

\* C13: after generateUniqueIDs every item record with a parent identifier
\* has one that is a key of the item map.
C13_ParentIsItemKey ==
    pc = "remapped" =>
        \A k \in DOMAIN snap.itemDataMap :
            snap.itemDataMap[k].parentId # "" =>
                snap.itemDataMap[k].parentId \in DOMAIN snap.itemDataMap

\* A child of the root element that fromXML skips: an item, node or connector
\* element without an id attribute, or an element of a tag it does not know.
BadUnit(element) ==
    \/ element.tag \in {"item", "node", "connector"} /\ ~hasAttribute(element, "id")
    \/ element.tag \notin {"item", "node", "connector", "pic-settings", "micro", "code"}

RECURSIVE WithoutBadUnits(_, _)
\* The first n of the children without the bad units, in their order.
WithoutBadUnits(children, n) ==
    IF n = 0 THEN <<>>
    ELSE IF BadUnit(children[n]) THEN WithoutBadUnits(children, n - 1)
    ELSE Append(WithoutBadUnits(children, n - 1), children[n])

\* The ids of the elements of the given tag among the children that have one.
IdsOf(children, tag) ==
    {children[i].attrs["id"] :
        i \in {j \in 1..Len(children) :
                  children[j].tag = tag /\ hasAttribute(children[j], "id")}}

RECURSIVE ItemIdsIn(_)
\* The ids of the item elements with an id among the children, and of those
\* nested in them.
ItemIdsIn(children) ==
    UNION {{children[i].attrs["id"]} \cup ItemIdsIn(children[i].children) :
        i \in {j \in 1..Len(children) :
                  children[j].tag = "item" /\ hasAttribute(children[j], "id")}}

\* C14: fromXML of a document with bad units returns success; an item, node
\* or connector element without id adds no record and an element of an
\* unknown tag adds nothing, so the keys of each map are the ids of the
\* well-formed elements and the snapshot is the one read from the document
\* without its bad units.
C14_BadUnitsSkipped ==
    (pc = "read" /\ xml # Malformed) =>
        /\ ret
        /\ DOMAIN snap.itemDataMap = ItemIdsIn(xml.children)
        /\ DOMAIN snap.nodeDataMap = IdsOf(xml.children, "node")
        /\ DOMAIN snap.connectorDataMap = IdsOf(xml.children, "connector")
        /\ snap = fromXML(snap0,
                     Element(xml.tag, xml.attrs,
                             WithoutBadUnits(xml.children, Len(xml.children)))).snapshot

\* A node without id and an element of an unknown tag have been read before
\* a well-formed node, which is the one record of the snapshot.
C14_Witness ==
    /\ pc = "read"
    /\ ret
    /\ Len(xml.children) = 3
    /\ xml.children[1].tag = "node" /\ ~hasAttribute(xml.children[1], "id")
    /\ xml.children[2].tag = "wire"
    /\ xml.children[3].tag = "node" /\ hasAttribute(xml.children[3], "id")
    /\ Keys(snap) = {"n1"}
    /\ snap.nodeDataMap["n1"] = [x |-> 2, y |-> 1]

\* C15: restoreDocument removes no live PicItem, whether it has a record or
\* not: the item is still live, on the canvas if it was, and removeItem was
\* never called on it; every other live item on the canvas that has no
\* record is removed.
C15_PicItemKept ==
    pc = "restored" =>
        \A k \in DOMAIN arg.before.items :
            IF arg.before.items[k].type = PicItemTypeString
            THEN /\ k \in DOMAIN doc.items
                 /\ doc.items[k].canvas = arg.before.items[k].canvas
                 /\ \A i \in 1..Len(CallsSince(doc, arg.before)) :
                        CallsSince(doc, arg.before)[i]
                            # [call |-> "Item::removeItem", id |-> k]
            ELSE (arg.before.items[k].canvas /\ k \notin DOMAIN snap.itemDataMap)
                     => k \notin DOMAIN doc.items

\* A restore from a snapshot without a record for the PicItem on the canvas
\* and without one for another item on the canvas: only the other is removed.
C15_Witness ==
    /\ pc = "restored"
    /\ \E k \in PicItems(arg.before) :
           /\ arg.before.items[k].canvas
           /\ k \notin DOMAIN snap.itemDataMap
           /\ k \in DOMAIN doc.items
    /\ \E k \in DOMAIN arg.before.items \ PicItems(arg.before) :
           /\ arg.before.items[k].canvas
           /\ k \notin DOMAIN snap.itemDataMap
           /\ k \notin DOMAIN doc.items

\* C16: after saveDocumentState the item keys are the live items on the
\* canvas that are no PicItem; for an ICN document the connector keys are
\* the live connectors on the canvas with a start node and an end node, and
\* the node keys the live nodes on the canvas that are no child nodes; for
\* any other document the connector and node maps are empty.
C16_CapturedKeys ==
    pc = "saved" =>
        /\ DOMAIN snap.itemDataMap =
               {k \in DOMAIN doc.items : doc.items[k].canvas} \ PicItems(doc)
        /\ IF IsICNDocument(doc)
           THEN /\ DOMAIN snap.connectorDataMap =
                       {k \in DOMAIN doc.connectors :
                           /\ doc.connectors[k].canvas
                           /\ doc.connectors[k].startNode # ""
                           /\ doc.connectors[k].endNode # ""}
                /\ DOMAIN snap.nodeDataMap =
                       {k \in DOMAIN doc.nodes :
                           doc.nodes[k].canvas /\ ~doc.nodes[k].isChildNode}
           ELSE /\ snap.connectorDataMap = EmptyMap
                /\ snap.nodeDataMap = EmptyMap

\* The state of a circuit has been saved in a snapshot that held records:
\* the circuit has an item and a node off the canvas and a connector without
\* its start node, and the snapshot holds the records of the others only.
C16_Witness ==
    /\ pc = "saved"
    /\ "old" \in Keys(snap0)
    /\ doc \in CircuitVariants
    /\ ~doc.items["x"].canvas /\ ~doc.nodes["nx"].canvas
    /\ doc.connectors["c1"].startNode = ""
    /\ doc.connectors["cx"].canvas /\ doc.connectors["cx"].endNode = "nx"
    /\ DOMAIN snap.itemDataMap = {"a"}
    /\ DOMAIN snap.nodeDataMap = {"n1"}
    /\ DOMAIN snap.connectorDataMap = {"cx"}

\* C17: after mergeWithDocument on an ICN document every node record names
\* a live node at the recorded position; a node that was not live before is
\* a JunctionNode in a circuit and a JunctionFlowNode in a flow-code document.
C17_NodesResolved ==
    (pc \in {"merged", "merged twice"} /\ IsICNDocument(doc)) =>
        \A k \in DOMAIN snap.nodeDataMap :
            /\ k \in DOMAIN doc.nodes
            /\ doc.nodes[k].x = snap.nodeDataMap[k].x
            /\ doc.nodes[k].y = snap.nodeDataMap[k].y
            /\ k \notin DOMAIN doc0.nodes =>
                   /\ doc.type = "dt_circuit" => doc.nodes[k].class = "JunctionNode"
                   /\ doc.type = "dt_flowcode" => doc.nodes[k].class = "JunctionFlowNode"

\* The entity id has had the call made on it among the calls.
HasCall(calls, call, id) ==
    \E i \in 1..Len(calls) : calls[i] = [call |-> call, id |-> id]

\* C18: in a merge ItemLibrary::createItem is called for a record if and
\* only if its type is not empty and no live item has its identifier. An
\* item constructed that the document considers invalid is removed: no live
\* item has its identifier after the merge and restoreFromItemData was not
\* called on it. Every other record with a live item before the merge or an
\* item constructed has its live item after the merge, restored from the
\* record.
C18_InvalidItemSkipped ==
    pc \in {"merged", "merged twice"} =>
        \A k \in DOMAIN snap.itemDataMap :
            LET calls == CallsSince(doc, arg.before)
                record == snap.itemDataMap[k]
                constructed == HasCall(calls, "createItem", k)
            IN  /\ (constructed \/ HasCall(calls, "createItem (nullptr)", k))
                       <=> (record.type # "" /\ k \notin DOMAIN arg.before.items)
                /\ IF constructed /\ ~isValidItem(doc, record.type)
                   THEN /\ k \notin DOMAIN doc.items
                        /\ ~HasCall(calls, "Item::restoreFromItemData", k)
                   ELSE (constructed \/ k \in DOMAIN arg.before.items) =>
                            /\ k \in DOMAIN doc.items
                            /\ HasCall(calls, "Item::restoreFromItemData", k)
                            /\ doc.items[k].itemData = record
                            /\ doc.items[k].finishedCreation

\* A merge with the records a and b into a document without these items:
\* the item constructed for a was invalid and is not live, the item
\* constructed for b after it is live and restored.
C18_Witness ==
    /\ pc = "merged"
    /\ DOMAIN snap.itemDataMap = {"a", "b"}
    /\ DOMAIN arg.before.items \cap {"a", "b"} = {}
    /\ HasCall(doc.calls, "createItem", "a")
    /\ ~isValidItem(doc, snap.itemDataMap["a"].type)
    /\ "a" \notin DOMAIN doc.items
    /\ "b" \in DOMAIN doc.items
    /\ doc.items["b"].itemData = snap.itemDataMap["b"]

\* C19: after initECSubcircuit no external connection has a record; the
\* sub-circuit's name at the pin of each external connection is the "name"
\* of that connection's record; an end of a connector record that named a
\* child node of an external connection names the child node of the
\* sub-circuit in the slot that is the pin number in decimal; any other end
\* is as generateUniqueIDs left it.
C19_ExternalReferencesReplaced ==
    pc = "initialised" =>
        LET markers == ExternalConnections(snap0)
            pin == [k \in markers |-> arg.nodeMap[arg.replaced[k]]]
            unique == generateUniqueIDs(snap0, arg.replaced)
        IN  /\ ExternalConnections(snap) = {}
            /\ \A k \in markers :
                   /\ arg.replaced[k] \notin DOMAIN snap.itemDataMap
                   /\ doc.items[SubcircuitId].extConName[pin[k]]
                          = snap0.itemDataMap[k].dataString["name"]
            /\ \A c \in DOMAIN snap0.connectorDataMap :
                   LET old == snap0.connectorDataMap[c]
                       remapped == unique.connectorDataMap[arg.replaced[c]]
                       new == snap.connectorDataMap[arg.replaced[c]]
                   IN  /\ new.startNodeIsChild = old.startNodeIsChild
                       /\ new.endNodeIsChild = old.endNodeIsChild
                       /\ new.startNodeId = remapped.startNodeId
                       /\ new.endNodeId = remapped.endNodeId
                       /\ IF old.startNodeIsChild /\ old.startNodeParent \in markers
                          THEN /\ new.startNodeParent = SubcircuitId
                               /\ new.startNodeCId = ToString(pin[old.startNodeParent])
                          ELSE /\ new.startNodeParent = remapped.startNodeParent
                               /\ new.startNodeCId = remapped.startNodeCId
                       /\ IF old.endNodeIsChild /\ old.endNodeParent \in markers
                          THEN /\ new.endNodeParent = SubcircuitId
                               /\ new.endNodeCId = ToString(pin[old.endNodeParent])
                          ELSE /\ new.endNodeParent = remapped.endNodeParent
                               /\ new.endNodeCId = remapped.endNodeCId

\* A sub-circuit of four external connections has been initialised from a
\* snapshot with a connector from the junction n1 to the external connection
\* c: the connector's record ends at a pin of the sub-circuit and starts
\* where it did.
C19_Witness ==
    /\ pc = "initialised"
    /\ Cardinality(ExternalConnections(snap0)) = 4
    /\ "c1" \in DOMAIN snap0.connectorDataMap
    /\ snap0.connectorDataMap["c1"].endNodeParent = "c"
    /\ LET new == snap.connectorDataMap[arg.replaced["c1"]]
       IN  /\ new.endNodeIsChild
           /\ new.endNodeParent = SubcircuitId
           /\ new.endNodeCId = ToString(arg.nodeMap[arg.replaced["c"]])
           /\ ~new.startNodeIsChild
           /\ new.startNodeId = arg.replaced["n1"]

\* The live items, connectors and nodes of the document d that have a record
\* in the snapshot.
Recorded(d, snapshot) ==
    [items |-> DOMAIN d.items \cap DOMAIN snapshot.itemDataMap,
     connectors |-> DOMAIN d.connectors \cap DOMAIN snapshot.connectorDataMap,
     nodes |-> DOMAIN d.nodes \cap DOMAIN snapshot.nodeDataMap]

\* After initECSubcircuit every live item, connector and node with a record
\* is hidden and off the canvas.
RecordedHidden ==
    pc = "initialised" =>
        /\ \A k \in Recorded(doc, snap).items :
               ~doc.items[k].visible /\ ~doc.items[k].canvas
                   /\ doc.items[k].parentItem = SubcircuitId
        /\ \A k \in Recorded(doc, snap).connectors :
               ~doc.connectors[k].visible /\ ~doc.connectors[k].canvas
        /\ \A k \in Recorded(doc, snap).nodes :
               ~doc.nodes[k].visible /\ ~doc.nodes[k].canvas

\* A step that removes the sub-circuit removes with it every live item,
\* connector and node with a record: each is put on the delete list.
RemovedWithContainer ==
    (pc = "initialised" /\ pc' = "deleted") =>
        /\ <<"item", SubcircuitId>> \in doc'.deleteList
        /\ \A k \in Recorded(doc, snap).items : <<"item", k>> \in doc'.deleteList
        /\ \A k \in Recorded(doc, snap).connectors :
               <<"connector", k>> \in doc'.deleteList
        /\ \A k \in Recorded(doc, snap).nodes : <<"node", k>> \in doc'.deleteList

\* Once the delete list is flushed nothing that initECSubcircuit constructed
\* is live: the document has no entity it had not before.
NothingOutlives ==
    pc = "flushed" =>
        /\ DOMAIN doc.items \subseteq DOMAIN doc0.items \ {SubcircuitId}
        /\ DOMAIN doc.connectors \subseteq DOMAIN doc0.connectors
        /\ DOMAIN doc.nodes \subseteq DOMAIN doc0.nodes

\* C20: from the end of initECSubcircuit on, every live item, connector and
\* node with a record of the snapshot is hidden and off the canvas; whenever
\* the sub-circuit is deleted afterwards each of them is removed with it, and
\* none of the entities constructed outlives the sub-circuit.
C20_OwnedByContainer ==
    [](RecordedHidden /\ NothingOutlives) /\ [][RemovedWithContainer]_vars

\* A sub-circuit with a live item, connector and node that have records has
\* been deleted and the delete list flushed.
C20_Witness ==
    /\ pc = "flushed"
    /\ DOMAIN snap.itemDataMap # {}
    /\ DOMAIN snap.connectorDataMap # {}
    /\ DOMAIN snap.nodeDataMap # {}
    /\ HasCall(doc.calls, "new ElectronicConnector", The(DOMAIN snap.connectorDataMap))
    /\ HasCall(doc.calls, "Connector::removeConnectorNoArg",
               The(DOMAIN snap.connectorDataMap))
    /\ HasCall(doc.calls, "Node::removeNode", The(DOMAIN snap.nodeDataMap))
    /\ SubcircuitId \notin DOMAIN doc.items

\* C21: saveDocumentState starts from a cleared snapshot: after it every
\* record is one of a live entity of the document, and the MicroData holds
\* nothing the snapshot held before: it is the MicroData of the flow-code
\* document's MicroSettings, or a MicroData without id, pins, pin mappings
\* and variables.
C21_StartsCleared ==
    pc = "saved" =>
        /\ DOMAIN snap.itemDataMap \subseteq DOMAIN doc.items
        /\ DOMAIN snap.connectorDataMap \subseteq DOMAIN doc.connectors
        /\ DOMAIN snap.nodeDataMap \subseteq DOMAIN doc.nodes
        /\ IF IsFlowCodeDocument(doc)
           THEN snap.microData \in MicroSamples \cup {NewMicroData}
           ELSE snap.microData = NewMicroData

RECURSIVE ItemIdSeq(_, _)
\* The ids of the item elements with an id among the first n children and
\* of those nested in them, one entry for each element.
ItemIdSeq(children, n) ==
    IF n = 0 THEN <<>>
    ELSE ItemIdSeq(children, n - 1)
         \o (IF children[n].tag = "item" /\ hasAttribute(children[n], "id")
             THEN <<children[n].attrs["id"]>>
                  \o ItemIdSeq(children[n].children, Len(children[n].children))
             ELSE <<>>)

\* The id is that of one item element of the document only.
OnlyItemWithId(id) ==
    Cardinality({i \in 1..Len(ItemIdSeq(xml.children, Len(xml.children))) :
                    ItemIdSeq(xml.children, Len(xml.children))[i] = id}) = 1

C23_RemapFrame ==
    pc = "remapped" =>
        LET r == arg.replaced
        IN  /\ \A k \in DOMAIN snap0.itemDataMap :
                   /\ r[k] \in DOMAIN snap.itemDataMap
                   /\ [snap.itemDataMap[r[k]] EXCEPT
                           !.parentId = snap0.itemDataMap[k].parentId]
                          = snap0.itemDataMap[k]
            /\ \A k \in DOMAIN snap0.connectorDataMap :
                   /\ r[k] \in DOMAIN snap.connectorDataMap
                   /\ [snap.connectorDataMap[r[k]] EXCEPT
                           !.startNodeId = snap0.connectorDataMap[k].startNodeId,
                           !.endNodeId = snap0.connectorDataMap[k].endNodeId,
                           !.startNodeParent = snap0.connectorDataMap[k].startNodeParent,
                           !.endNodeParent = snap0.connectorDataMap[k].endNodeParent]
                          = snap0.connectorDataMap[k]
            /\ \A k \in DOMAIN snap0.nodeDataMap :
                   /\ r[k] \in DOMAIN snap.nodeDataMap
                   /\ snap.nodeDataMap[r[k]] = snap0.nodeDataMap[k]
            /\ Cardinality(DOMAIN snap.itemDataMap) = Cardinality(DOMAIN snap0.itemDataMap)
            /\ Cardinality(DOMAIN snap.connectorDataMap)
                   = Cardinality(DOMAIN snap0.connectorDataMap)
            /\ Cardinality(DOMAIN snap.nodeDataMap) = Cardinality(DOMAIN snap0.nodeDataMap)
            /\ snap.microData = snap0.microData
            /\ snap.documentType = snap0.documentType

\* A snapshot with items, a node and a connector whose end is in the slot b
\* of the item b has been remapped: the item b has a new key and the slot
\* is still b.
C23_Witness ==
    /\ pc = "remapped"
    /\ {"a", "b"} \subseteq DOMAIN snap0.itemDataMap
    /\ "n1" \in DOMAIN snap0.nodeDataMap
    /\ "c1" \in DOMAIN snap0.connectorDataMap
    /\ snap0.connectorDataMap["c1"].endNodeCId = "b"
    /\ arg.replaced["b"] # "b"
    /\ arg.replaced["a"] # "a"
    /\ snap.connectorDataMap[arg.replaced["c1"]].endNodeCId = "b"
    /\ snap.connectorDataMap[arg.replaced["c1"]].endNodeParent = arg.replaced["b"]
    /\ snap.itemDataMap[arg.replaced["a"]].type = "ec/resistor"

\* Every call of the first set made among the calls comes before every call
\* of the second set.
AllBefore(calls, first, second) ==
    \A i, j \in 1..Len(calls) :
        (calls[i].call \in first /\ calls[j].call \in second) => i < j

\* C24: in one mergeWithDocument every node is constructed and moved before
\* any item is constructed; every item is constructed and every constructed
\* item moved before restoreFromItemData is called on any item, and each
\* item constructed and kept was moved; no connector is constructed before
\* every item has been restored, marked creation-finished and shown.
C24_MergePhases ==
    pc \in {"merged", "merged twice"} =>
        LET calls == CallsSince(doc, arg.before)
        IN  /\ AllBefore(calls, {"new JunctionNode", "new JunctionFlowNode", "Node::move"},
                         {"createItem", "createItem (nullptr)"})
            /\ AllBefore(calls, {"createItem", "createItem (nullptr)", "Item::move"},
                         {"Item::restoreFromItemData"})
            /\ \A k \in DOMAIN doc.items :
                   HasCall(calls, "createItem", k) => HasCall(calls, "Item::move", k)
            /\ AllBefore(calls, {"Item::restoreFromItemData", "Item::finishedCreation",
                                 "Item::show"},
                         {"new ElectronicConnector", "new FlowConnector"})

\* A merge that constructed a node, constructed, moved and restored two
\* items and constructed a connector.
C24_Witness ==
    /\ pc = "merged"
    /\ LET calls == CallsSince(doc, arg.before)
       IN  /\ \E i \in 1..Len(calls) : calls[i].call = "new JunctionNode"
           /\ HasCall(calls, "createItem", "a") /\ HasCall(calls, "createItem", "b")
           /\ HasCall(calls, "Item::move", "a") /\ HasCall(calls, "Item::move", "b")
           /\ HasCall(calls, "Item::restoreFromItemData", "a")
           /\ HasCall(calls, "Item::restoreFromItemData", "b")
           /\ \E i \in 1..Len(calls) : calls[i].call = "new ElectronicConnector"

\* C25: generateUniqueIDs sets to the empty string every reference field
\* (parentId of an item; startNodeId, endNodeId, startNodeParent and
\* endNodeParent of a connector) that held an identifier which is not empty
\* and is no key of the three maps.
C25_OutsideReferenceCleared ==
    pc = "remapped" =>
        LET r == arg.replaced
            Outside(id) == id # "" /\ id \notin Keys(snap0)
        IN  /\ \A k \in DOMAIN snap0.itemDataMap :
                   Outside(snap0.itemDataMap[k].parentId)
                       => snap.itemDataMap[r[k]].parentId = ""
            /\ \A k \in DOMAIN snap0.connectorDataMap :
                   \A f \in {"startNodeId", "endNodeId", "startNodeParent", "endNodeParent"} :
                       Outside(snap0.connectorDataMap[k][f])
                           => snap.connectorDataMap[r[k]][f] = ""

\* A snapshot with an item whose parent is zz, a connector that starts at
\* the node zz and no key zz has been remapped: the item has no parent and
\* the connector no start node.
C25_Witness ==
    /\ pc = "remapped"
    /\ "zz" \notin Keys(snap0)
    /\ \E k \in DOMAIN snap0.itemDataMap :
           /\ snap0.itemDataMap[k].parentId = "zz"
           /\ snap.itemDataMap[arg.replaced[k]].parentId = ""
    /\ \E k \in DOMAIN snap0.connectorDataMap :
           /\ snap0.connectorDataMap[k].startNodeId = "zz"
           /\ snap.connectorDataMap[arg.replaced[k]].startNodeId = ""

C27_PinsPermutation ==
    pc = "initialised" =>
        LET markers == {arg.replaced[k] : k \in ExternalConnections(snap0)}
            n == Cardinality(ExternalConnections(snap0))
        IN  /\ Cardinality(markers) = n
            /\ DOMAIN arg.nodeMap = markers
            /\ {arg.nodeMap[k] : k \in markers} = 0..(n - 1)
            /\ \A k, o \in markers : arg.nodeMap[k] = arg.nodeMap[o] => k = o
            /\ doc.items[SubcircuitId].numExtCon = n

\* Three external connections, two of them at one place and all of them at
\* one x, have got the pins 0, 1 and 2.
C27_Witness ==
    /\ pc = "initialised"
    /\ Cardinality(ExternalConnections(snap0)) = 3
    /\ \E k, o \in ExternalConnections(snap0) :
           /\ k # o
           /\ snap0.itemDataMap[k].x = snap0.itemDataMap[o].x
           /\ snap0.itemDataMap[k].y = snap0.itemDataMap[o].y
    /\ \A k, o \in ExternalConnections(snap0) :
           snap0.itemDataMap[k].x = snap0.itemDataMap[o].x
    /\ {arg.nodeMap[k] : k \in DOMAIN arg.nodeMap} = {0, 1, 2}
    /\ doc.items[SubcircuitId].numExtCon = 3

\* C28: restoreDocument of a snapshot on the document whose state it has
\* just saved constructs nothing and removes nothing: the live identifiers
\* and the positions are those before the restore.
C28_CaptureRestoreNoOp ==
    pc = "saved and restored" =>
        /\ LiveEntities(doc) = LiveEntities(arg.before)
        /\ ConstructedBy(CallsSince(doc, arg.before)) = {}

\* The connectors of the document d that are on the canvas and have no
\* start node or no end node.
HalfConnected(d) ==
    {k \in DOMAIN d.connectors :
        /\ d.connectors[k].canvas
        /\ d.connectors[k].startNode = "" \/ d.connectors[k].endNode = ""}

\* C28 (amended): restoreDocument of a snapshot on the document whose state
\* it has just saved constructs nothing, leaves the live items and nodes and
\* their positions as they were, and removes the connectors on the canvas
\* that have no start node or no end node, and no other connector.
C28_CaptureRestoreKeepsResolved ==
    pc = "saved and restored" =>
        /\ ConstructedBy(CallsSince(doc, arg.before)) = {}
        /\ LiveEntities(doc).items = LiveEntities(arg.before).items
        /\ LiveEntities(doc).nodes = LiveEntities(arg.before).nodes
        /\ DOMAIN doc.connectors
               = DOMAIN arg.before.connectors \ HalfConnected(arg.before)

\* The state of a circuit with a connector without its start node and one
\* with both nodes, both on the canvas, was saved and restored: the first
\* is gone, the second is live.
C28_Witness ==
    /\ pc = "saved and restored"
    /\ HalfConnected(arg.before) = {"c1"}
    /\ arg.before.connectors["cx"].canvas
    /\ DOMAIN doc.connectors = {"cx"}
    /\ DOMAIN doc.items = {"a", "x"}

\* The item as far as a move, a restore from a record, hiding, taking off
\* the canvas, parenting or wiring to a deletion can change it.
Untouchable(item) ==
    [x |-> item.x, y |-> item.y, itemData |-> item.itemData,
     visible |-> item.visible, canvas |-> item.canvas,
     parentItem |-> item.parentItem, removedWith |-> item.removedWith]

\* C29: initECSubcircuit leaves what was live in the document before the
\* call as it was: the keys of the snapshot it merges are no identifiers of
\* items, nodes or connectors live before, and each of these is live after
\* the call and is not moved, restored from a record, hidden, taken off the
\* canvas or wired to the deletion of the sub-circuit.
C29_LiveUntouched ==
    (pc = "initialised") =>
        /\ Keys(snap) \cap (DOMAIN doc0.items \cup DOMAIN doc0.nodes
                                \cup DOMAIN doc0.connectors) = {}
        /\ \A k \in DOMAIN doc0.items :
               /\ k \in DOMAIN doc.items
               /\ Untouchable(doc.items[k]) = Untouchable(doc0.items[k])
               /\ k # SubcircuitId => doc.items[k] = doc0.items[k]
        /\ \A k \in DOMAIN doc0.nodes :
               k \in DOMAIN doc.nodes /\ doc.nodes[k] = doc0.nodes[k]
        /\ \A k \in DOMAIN doc0.connectors :
               k \in DOMAIN doc.connectors /\ doc.connectors[k] = doc0.connectors[k]

\* A sub-circuit was initialised in the circuit where the junction n1 and
\* the connector c1 are live, from a snapshot that has a node n1 and a
\* connector c1: the document has the live ones as before and, hidden and
\* owned by the sub-circuit, the new ones.
C29_Witness ==
    /\ pc = "initialised"
    /\ doc0 = SubcircuitWiredDocument
    /\ {"n1", "c1"} \subseteq Keys(snap0)
    /\ doc.nodes["n1"].canvas /\ doc.connectors["c1"].canvas
    /\ \E n \in DOMAIN snap.nodeDataMap :
           n \in DOMAIN doc.nodes /\ ~doc.nodes[n].canvas
    /\ \E c \in DOMAIN snap.connectorDataMap :
           c \in DOMAIN doc.connectors /\ ~doc.connectors[c].canvas

\* Every identifier live in the document before is live in the document d.
StillLive(d, before) ==
    /\ DOMAIN before.items \subseteq DOMAIN d.items
    /\ DOMAIN before.nodes \subseteq DOMAIN d.nodes
    /\ DOMAIN before.connectors \subseteq DOMAIN d.connectors

\* The item k is where it was and holds the record and the parent it had.
ItemAsBefore(d, before, k) ==
    /\ d.items[k].x = before.items[k].x /\ d.items[k].y = before.items[k].y
    /\ d.items[k].itemData = before.items[k].itemData
    /\ d.items[k].parentItem = before.items[k].parentItem

\* The node k is where it was.
NodeAsBefore(d, before, k) ==
    d.nodes[k].x = before.nodes[k].x /\ d.nodes[k].y = before.nodes[k].y

====
